---------------------------- MODULE Spec2Model ----------------------------
(***************************************************************************)
(* Rule-based patient analysis of the MedicControl AI module               *)
(* (src/src/ai/ai.service.ts, types and defaults in ai.types).             *)
(*                                                                         *)
(* Units.  Time is counted in ticks, TicksPerDay ticks to a day; the       *)
(* program's clock starts at tick 0 and record dates are ticks relative to *)
(* it (negative = in the past).  Vital-sign numbers (systolic, diastolic,  *)
(* numericValue and the thresholds they are compared with) are in tenths   *)
(* of their unit, so that 38.5 C is 385.  adherenceRate and the risk score *)
(* are in hundredths (90% is 9000, 22.5 points are 2250).                  *)
(* An optional field is None when undefined and Some(x) otherwise.         *)
(***************************************************************************)
EXTENDS Integers, Sequences, FiniteSets, TLC

VARIABLES
    config,     \* AIService.config, fixed by the constructor
    now,        \* the wall clock (new Date())
    patientId,  \* argument of generatePatientSummary
    reminders,  \* argument: ReminderRecord[]
    vitals,     \* argument: VitalRecord[]
    exams,      \* argument: ExamRecord[]
    pc,         \* "ready" before the first call, "returned" after it,
                \* "repeated" after a second call
    reads,      \* the clock readings taken by the last call
    summary,    \* the PatientAISummary returned by the last call
    previous,   \* arguments, readings and result of the call before the last
    calls,      \* invocations of aiService.generatePatientSummary by several
                \* callers at once: each caller's arguments, promise and result
    http        \* the request handled by AIController.getPatientSummary and
                \* the response sent for it

vars == <<config, now, patientId, reminders, vitals, exams, pc, reads, summary, previous,
          calls, http>>

---------------------------------------------------------------------------
\* Bounds of the model.

TicksPerDay == 2
MaxClock == 1
MaxReminders == 2
MaxUniformReminders == 10
MaxVitals == 3
MaxExams == 2
MaxDigestExams == 6
MaxMixed == 1
MaxOverdue == 2
MaxPending == 4
MaxRepeat == 2
MaxCallers == 2

---------------------------------------------------------------------------
\* Generic helpers.

None == << >>
Some(x) == <<x>>
IsSome(o) == o # None
Val(o) == o[1]

Min(a, b) == IF a <= b THEN a ELSE b
Max(a, b) == IF a >= b THEN a ELSE b

\* Math.floor(a / b) for b > 0 (TLA+ \div floors).
Floor(a, b) == a \div b

\* Math.round(a / b) for b > 0: the nearest integer, halves rounded up.
Round(a, b) == (2 * a + b) \div (2 * b)

\* All sequences over S of length at most n.
SeqUpTo(S, n) == UNION {[1..k -> S] : k \in 0..n}

Days(n) == n * TicksPerDay

\* Tenths of a unit: the scale of vital-sign numbers.
T(x) == x * 10
\* Hundredths: the scale of adherenceRate and of the risk score.
H(x) == x * 100

\* JavaScript's x >= k and x <= k for an optional number: a comparison with
\* undefined is false.
OptGe(o, k) == IsSome(o) /\ Val(o) >= k
OptLe(o, k) == IsSome(o) /\ Val(o) <= k

---------------------------------------------------------------------------
\* Configuration (ai.types).

DEFAULT_RISK_CONFIG ==
    [adherence |-> [goodThreshold |-> 90, mediumThreshold |-> 75,
                    badWeight |-> 25, mediumWeight |-> 10],
     vitals |->
        [pressure |-> [systolicHigh |-> 140, systolicLow |-> 90,
                       diastolicHigh |-> 90, diastolicLow |-> 60, weight |-> 15],
         glucose |-> [high |-> 180, low |-> 70, weight |-> 15],
         heartRate |-> [high |-> 100, low |-> 50, weight |-> 10],
         temperature |-> [high |-> 38, low |-> 35, weight |-> 10],
         oxygen |-> [low |-> 92, weight |-> 20]],
     exams |-> [overdueDays |-> 30, overdueWeight |-> 15, pendingWeight |-> 5],
     riskLevels |-> [lowMax |-> 29, moderateMax |-> 59]]

\* { ...DEFAULT_RISK_CONFIG, ...config }: a shallow merge, every top-level key
\* the override gives replaces the default's whole sub-object.
Constructor(override) ==
    [k \in DOMAIN DEFAULT_RISK_CONFIG |->
        IF k \in DOMAIN override THEN override[k] ELSE DEFAULT_RISK_CONFIG[k]]

\* new AIService(): no override.
NoOverride == [k \in {} |-> {}]

---------------------------------------------------------------------------
\* analyzeAdherence

\* Windows written as literals in the analyzers.
AdherenceDays == 30
VitalsDays == 7

recentReminders(rs, clock) ==
    SelectSeq(rs, LAMBDA r : r.scheduledAt >= clock - Days(AdherenceDays))

\* Variant: a patient without reminders in the window gets rate 0.
adherenceRate_ZeroWhenEmpty(total, taken, late) ==
    IF total > 0 THEN Round((taken + late) * 10000, total) ELSE 0

adherenceRate(total, taken, late) ==
    IF total > 0 THEN Round((taken + late) * 10000, total) ELSE H(100)

\* Variant: the thresholds are exclusive.
adherenceStatus_Exclusive(rate) ==
    IF rate > H(config.adherence.goodThreshold) THEN "good"
    ELSE IF rate > H(config.adherence.mediumThreshold) THEN "medium"
    ELSE "bad"

adherenceStatus(rate) ==
    IF rate >= H(config.adherence.goodThreshold) THEN "good"
    ELSE IF rate >= H(config.adherence.mediumThreshold) THEN "medium"
    ELSE "bad"

\* Variant: taken, late and missed are counted over all reminders, not over
\* the recent ones.
analyzeAdherence_CountsAll(rs, clock) ==
    LET recent == recentReminders(rs, clock)
        totalReminders == Len(recent)
        taken == Len(SelectSeq(rs, LAMBDA r : r.status = "taken"))
        late == Len(SelectSeq(rs, LAMBDA r : r.status = "late"))
        missed == Len(SelectSeq(rs, LAMBDA r : r.status = "missed"))
        rate == adherenceRate(totalReminders, taken, late)
    IN  [days |-> AdherenceDays,
         totalReminders |-> totalReminders,
         taken |-> taken,
         late |-> late,
         missed |-> missed,
         adherenceRate |-> rate,
         adherenceStatus |-> adherenceStatus(rate)]

analyzeAdherence(rs, clock) ==
    LET recent == recentReminders(rs, clock)
        totalReminders == Len(recent)
        taken == Len(SelectSeq(recent, LAMBDA r : r.status = "taken"))
        late == Len(SelectSeq(recent, LAMBDA r : r.status = "late"))
        missed == Len(SelectSeq(recent, LAMBDA r : r.status = "missed"))
        rate == adherenceRate(totalReminders, taken, late)
    IN  [days |-> AdherenceDays,
         totalReminders |-> totalReminders,
         taken |-> taken,
         late |-> late,
         missed |-> missed,
         adherenceRate |-> rate,
         adherenceStatus |-> adherenceStatus(rate)]

---------------------------------------------------------------------------
\* Array.prototype.sort with a comparator (a, b) => key(b) - key(a): a stable
\* sort into descending key order.  The argument is a sequence of
\* [key, item] pairs.

RECURSIVE InsertDesc(_, _)
InsertDesc(sorted, p) ==
    IF sorted = << >> THEN <<p>>
    ELSE IF Head(sorted).key >= p.key
         THEN <<Head(sorted)>> \o InsertDesc(Tail(sorted), p)
         ELSE <<p>> \o sorted

RECURSIVE SortDesc(_)
SortDesc(ps) ==
    IF ps = << >> THEN << >>
    ELSE InsertDesc(SortDesc(SubSeq(ps, 1, Len(ps) - 1)), ps[Len(ps)])

Items(ps) == [i \in 1..Len(ps) |-> ps[i].item]

---------------------------------------------------------------------------
\* analyzeVitals

VitalTypes ==
    {"blood_pressure", "heart_rate", "temperature", "glucose", "weight",
     "oxygen_saturation"}

\* grouped[type], each group sorted by recordedAt, most recent first.
groupVitalsByType(vs) ==
    [t \in VitalTypes |->
        LET group == SelectSeq(vs, LAMBDA v : v.type = t)
        IN  Items(SortDesc([i \in 1..Len(group) |->
                                [key |-> group[i].recordedAt, item |-> group[i]]]))]

recentVitals(vs, clock) ==
    SelectSeq(vs, LAMBDA v : v.recordedAt >= clock - Days(VitalsDays))

Detail(flag, value, threshold, severity) ==
    [flag |-> flag, value |-> value, threshold |-> threshold, severity |-> severity]

\* Variant: one reading over the threshold is enough for a pressure flag.
pressureDetails_NoConfirmation(bp) ==
    IF bp # << >> /\ IsSome(bp[1].systolic) /\ IsSome(bp[1].diastolic)
    THEN LET c == config.vitals.pressure
             sys == Val(bp[1].systolic)
             highPressureCount ==
                 Len(SelectSeq(bp, LAMBDA v : \/ OptGe(v.systolic, T(c.systolicHigh))
                                        \/ OptGe(v.diastolic, T(c.diastolicHigh))))
             lowPressureCount ==
                 Len(SelectSeq(bp, LAMBDA v : \/ OptLe(v.systolic, T(c.systolicLow))
                                        \/ OptLe(v.diastolic, T(c.diastolicLow))))
         IN  (IF highPressureCount >= 1
              THEN <<Detail("PRESSURE_HIGH", sys, T(c.systolicHigh),
                            IF sys >= T(160) THEN "high"
                            ELSE IF sys >= T(150) THEN "medium" ELSE "low")>>
              ELSE << >>)
             \o
             (IF lowPressureCount >= 1
              THEN <<Detail("PRESSURE_LOW", sys, T(c.systolicLow),
                            IF sys <= T(80) THEN "high"
                            ELSE IF sys <= T(85) THEN "medium" ELSE "low")>>
              ELSE << >>)
    ELSE << >>

\* Pressao arterial
pressureDetails(bp) ==
    IF bp # << >> /\ IsSome(bp[1].systolic) /\ IsSome(bp[1].diastolic)
    THEN LET c == config.vitals.pressure
             sys == Val(bp[1].systolic)
             highPressureCount ==
                 Len(SelectSeq(bp, LAMBDA v : \/ OptGe(v.systolic, T(c.systolicHigh))
                                        \/ OptGe(v.diastolic, T(c.diastolicHigh))))
             lowPressureCount ==
                 Len(SelectSeq(bp, LAMBDA v : \/ OptLe(v.systolic, T(c.systolicLow))
                                        \/ OptLe(v.diastolic, T(c.diastolicLow))))
         IN  (IF highPressureCount >= 2
              THEN <<Detail("PRESSURE_HIGH", sys, T(c.systolicHigh),
                            IF sys >= T(160) THEN "high"
                            ELSE IF sys >= T(150) THEN "medium" ELSE "low")>>
              ELSE << >>)
             \o
             (IF lowPressureCount >= 2
              THEN <<Detail("PRESSURE_LOW", sys, T(c.systolicLow),
                            IF sys <= T(80) THEN "high"
                            ELSE IF sys <= T(85) THEN "medium" ELSE "low")>>
              ELSE << >>)
    ELSE << >>

\* Glicemia
glucoseDetails(gl) ==
    IF gl # << >> /\ IsSome(gl[1].numericValue)
    THEN LET c == config.vitals.glucose
             x == Val(gl[1].numericValue)
             highGlucoseCount == Len(SelectSeq(gl, LAMBDA v : OptGe(v.numericValue, T(c.high))))
             lowGlucoseCount == Len(SelectSeq(gl, LAMBDA v : OptLe(v.numericValue, T(c.low))))
         IN  (IF highGlucoseCount >= 2
              THEN <<Detail("GLUCOSE_HIGH", x, T(c.high),
                            IF x >= T(250) THEN "high"
                            ELSE IF x >= T(200) THEN "medium" ELSE "low")>>
              ELSE << >>)
             \o
             (IF lowGlucoseCount >= 1
              THEN <<Detail("GLUCOSE_LOW", x, T(c.low),
                            IF x <= T(50) THEN "high"
                            ELSE IF x <= T(60) THEN "medium" ELSE "low")>>
              ELSE << >>)
    ELSE << >>

\* Variant: each direction is judged over all readings of the window.
heartRateDetails_AnyReading(hr) ==
    IF hr # << >> /\ IsSome(hr[1].numericValue)
    THEN LET c == config.vitals.heartRate
             x == Val(hr[1].numericValue)
         IN  (IF Len(SelectSeq(hr, LAMBDA v : OptGe(v.numericValue, T(c.high)))) >= 1
              THEN <<Detail("HEART_RATE_HIGH", x, T(c.high),
                            IF x >= T(120) THEN "high"
                            ELSE IF x >= T(110) THEN "medium" ELSE "low")>>
              ELSE << >>)
             \o
             (IF Len(SelectSeq(hr, LAMBDA v : OptLe(v.numericValue, T(c.low)))) >= 1
              THEN <<Detail("HEART_RATE_LOW", x, T(c.low),
                            IF x <= T(40) THEN "high"
                            ELSE IF x <= T(45) THEN "medium" ELSE "low")>>
              ELSE << >>)
    ELSE << >>

\* Frequencia cardiaca
heartRateDetails(hr) ==
    IF hr # << >> /\ IsSome(hr[1].numericValue)
    THEN LET c == config.vitals.heartRate
             x == Val(hr[1].numericValue)
         IN  (IF x >= T(c.high)
              THEN <<Detail("HEART_RATE_HIGH", x, T(c.high),
                            IF x >= T(120) THEN "high"
                            ELSE IF x >= T(110) THEN "medium" ELSE "low")>>
              ELSE << >>)
             \o
             (IF x <= T(c.low)
              THEN <<Detail("HEART_RATE_LOW", x, T(c.low),
                            IF x <= T(40) THEN "high"
                            ELSE IF x <= T(45) THEN "medium" ELSE "low")>>
              ELSE << >>)
    ELSE << >>

\* Temperatura (38.5 and 34.5 are 385 and 345 tenths)
temperatureDetails(tp) ==
    IF tp # << >> /\ IsSome(tp[1].numericValue)
    THEN LET c == config.vitals.temperature
             x == Val(tp[1].numericValue)
         IN  (IF x >= T(c.high)
              THEN <<Detail("TEMPERATURE_HIGH", x, T(c.high),
                            IF x >= T(39) THEN "high"
                            ELSE IF x >= 385 THEN "medium" ELSE "low")>>
              ELSE << >>)
             \o
             (IF x <= T(c.low)
              THEN <<Detail("TEMPERATURE_LOW", x, T(c.low),
                            IF x <= T(34) THEN "high"
                            ELSE IF x <= 345 THEN "medium" ELSE "low")>>
              ELSE << >>)
    ELSE << >>

\* Variant: any reading of the window at or below the limit raises the flag.
oxygenDetails_AnyReading(ox) ==
    IF ox # << >> /\ IsSome(ox[1].numericValue)
    THEN LET c == config.vitals.oxygen
             x == Val(ox[1].numericValue)
         IN  IF Len(SelectSeq(ox, LAMBDA v : OptLe(v.numericValue, T(c.low)))) >= 1
             THEN <<Detail("OXYGEN_LOW", x, T(c.low),
                           IF x <= T(88) THEN "high"
                           ELSE IF x <= T(90) THEN "medium" ELSE "low")>>
             ELSE << >>
    ELSE << >>

\* Saturacao de oxigenio
oxygenDetails(ox) ==
    IF ox # << >> /\ IsSome(ox[1].numericValue)
    THEN LET c == config.vitals.oxygen
             x == Val(ox[1].numericValue)
         IN  IF x <= T(c.low)
             THEN <<Detail("OXYGEN_LOW", x, T(c.low),
                           IF x <= T(88) THEN "high"
                           ELSE IF x <= T(90) THEN "medium" ELSE "low")>>
             ELSE << >>
    ELSE << >>

\* lastMeasurements: a field is set from the channel's most recent in-window
\* record when that record carries the channel's numbers.
lastMeasurements(g) ==
    LET bp == g["blood_pressure"]
        bpOk == bp # << >> /\ IsSome(bp[1].systolic) /\ IsSome(bp[1].diastolic)
        latest(t) == IF g[t] # << >> THEN g[t][1].numericValue ELSE None
    IN  [systolic |-> IF bpOk THEN bp[1].systolic ELSE None,
         diastolic |-> IF bpOk THEN bp[1].diastolic ELSE None,
         bloodGlucose |-> latest("glucose"),
         heartRate |-> latest("heart_rate"),
         temperature |-> latest("temperature"),
         oxygenSaturation |-> latest("oxygen_saturation")]

analyzeVitals(vs, clock) ==
    LET vitalsByType == groupVitalsByType(recentVitals(vs, clock))
        flagDetails ==
            pressureDetails(vitalsByType["blood_pressure"])
            \o glucoseDetails(vitalsByType["glucose"])
            \o heartRateDetails(vitalsByType["heart_rate"])
            \o temperatureDetails(vitalsByType["temperature"])
            \o oxygenDetails(vitalsByType["oxygen_saturation"])
    IN  [lastMeasurements |-> lastMeasurements(vitalsByType),
         flags |-> [i \in 1..Len(flagDetails) |-> flagDetails[i].flag],
         flagDetails |-> flagDetails]

---------------------------------------------------------------------------
\* analyzeExams

\* Math.min(5, sortedExams.length)
RecentLimit == 5

\* Date.prototype.toISOString: the instant, as text.
toISOString(t) == [iso |-> t]

\* Variant: the scheduled date is preferred to the completion date.
examDate_ScheduledFirst(e) ==
    IF IsSome(e.scheduledAt) THEN Val(e.scheduledAt)
    ELSE IF IsSome(e.completedAt) THEN Val(e.completedAt)
    ELSE e.createdAt

\* a.completedAt || a.scheduledAt || a.createdAt
examDate(e) ==
    IF IsSome(e.completedAt) THEN Val(e.completedAt)
    ELSE IF IsSome(e.scheduledAt) THEN Val(e.scheduledAt)
    ELSE e.createdAt

\* [...exams].sort(...): most recent first.
sortedExams(es) ==
    Items(SortDesc([i \in 1..Len(es) |-> [key |-> examDate(es[i]), item |-> es[i]]]))

isPending(e) == e.status = "scheduled" \/ e.status = "pending_results"

\* Math.floor((now - scheduledAt) / (1000 * 60 * 60 * 24))
daysDiff(e, clock) == Floor(clock - Val(e.scheduledAt), TicksPerDay)

\* One entry of recentExams.  A result is a sequence of characters; only a
\* non-empty one is truthy, and it is cut at 100 characters.
examSummary(e, clock) ==
    [type |-> e.type,
     status |-> e.status,
     resultAt |-> IF IsSome(e.resultAt) THEN Some(toISOString(Val(e.resultAt))) ELSE None,
     summary |-> IF IsSome(e.result) /\ Val(e.result) # << >>
                 THEN Some(SubSeq(Val(e.result), 1, Min(100, Len(Val(e.result)))))
                 ELSE None,
     scheduledAt |-> IF IsSome(e.scheduledAt)
                     THEN Some(toISOString(Val(e.scheduledAt))) ELSE None,
     daysOverdue |-> IF IsSome(e.scheduledAt) /\ isPending(e) /\ daysDiff(e, clock) > 0
                     THEN Some(daysDiff(e, clock)) ELSE None]

\* Variant: an old scheduled date makes an exam of any status overdue.
isOverdue_AnyStatus(e, clock) ==
    IsSome(e.scheduledAt) /\ daysDiff(e, clock) > config.exams.overdueDays

\* Variant: an exam is overdue from the last day of the window on.
isOverdue_Inclusive(e, clock) ==
    isPending(e) /\ IsSome(e.scheduledAt)
    /\ daysDiff(e, clock) >= config.exams.overdueDays

isOverdue(e, clock) ==
    isPending(e) /\ IsSome(e.scheduledAt)
    /\ daysDiff(e, clock) > config.exams.overdueDays

analyzeExams(es, clock) ==
    LET sorted == sortedExams(es)
        recentCount == Min(RecentLimit, Len(sorted))
    IN  [recentExams |-> [i \in 1..recentCount |-> examSummary(sorted[i], clock)],
         pendingExams |-> Len(SelectSeq(es, isPending)),
         overdueExams |-> Len(SelectSeq(es, LAMBDA e : isOverdue(e, clock))),
         completedExams |-> Len(SelectSeq(es, LAMBDA e : e.status = "completed"))]

---------------------------------------------------------------------------
\* calculateRiskScore.  A reason is the message's template and the number
\* printed in it.

Reason(text, value) == [text |-> text, value |-> value]

\* Number.prototype.toFixed(1) of a rate given in hundredths: tenths.
toFixed1(rate) == Round(rate, 10)

adherenceRisk(a) ==
    IF a.adherenceStatus = "bad"
    THEN [score |-> H(config.adherence.badWeight),
          reasons |-> <<Reason("Baixa adesao aos medicamentos", toFixed1(a.adherenceRate))>>]
    ELSE IF a.adherenceStatus = "medium"
    THEN [score |-> H(config.adherence.mediumWeight),
          reasons |-> <<Reason("Adesao aos medicamentos pode melhorar",
                               toFixed1(a.adherenceRate))>>]
    ELSE [score |-> 0, reasons |-> << >>]

\* weight * (severity === 'high' ? 1.5 : 1), in hundredths
Weighted(weight, severity) == IF severity = "high" THEN weight * 150 ELSE H(weight)

\* The switch over detail.flag.
flagScore(d) ==
    LET v == config.vitals
    IN  CASE d.flag = "PRESSURE_HIGH" -> Weighted(v.pressure.weight, d.severity)
          [] d.flag = "PRESSURE_LOW" -> H(v.pressure.weight)
          [] d.flag = "GLUCOSE_HIGH" -> Weighted(v.glucose.weight, d.severity)
          [] d.flag = "GLUCOSE_LOW" -> v.glucose.weight * 150
          [] d.flag = "HEART_RATE_HIGH" -> H(v.heartRate.weight)
          [] d.flag = "HEART_RATE_LOW" -> H(v.heartRate.weight)
          [] d.flag = "TEMPERATURE_HIGH" -> H(v.temperature.weight)
          [] d.flag = "TEMPERATURE_LOW" -> H(v.temperature.weight)
          [] d.flag = "OXYGEN_LOW" -> Weighted(v.oxygen.weight, d.severity)
          [] OTHER -> 0

flagReason(d) ==
    CASE d.flag = "PRESSURE_HIGH" -> Reason("Pressao arterial frequentemente elevada", d.value)
      [] d.flag = "PRESSURE_LOW" -> Reason("Pressao arterial frequentemente baixa", d.value)
      [] d.flag = "GLUCOSE_HIGH" -> Reason("Glicemia frequentemente elevada", d.value)
      [] d.flag = "GLUCOSE_LOW" -> Reason("Episodios de hipoglicemia detectados", d.value)
      [] d.flag = "HEART_RATE_HIGH" -> Reason("Frequencia cardiaca elevada", d.value)
      [] d.flag = "HEART_RATE_LOW" -> Reason("Frequencia cardiaca baixa", d.value)
      [] d.flag = "TEMPERATURE_HIGH" -> Reason("Febre detectada", d.value)
      [] d.flag = "TEMPERATURE_LOW" -> Reason("Hipotermia detectada", d.value)
      [] d.flag = "OXYGEN_LOW" -> Reason("Saturacao de oxigenio baixa", d.value)

RECURSIVE SumSeq(_)
SumSeq(s) == IF s = << >> THEN 0 ELSE Head(s) + SumSeq(Tail(s))

\* Variant: overdue exams weigh once, however many they are.
examsRisk_OverdueOnce(e) ==
    LET overdue == e.overdueExams > 0
        pending == e.pendingExams > 3
    IN  [score |-> (IF overdue THEN H(config.exams.overdueWeight) ELSE 0)
                   + (IF pending THEN H(config.exams.pendingWeight) ELSE 0),
         reasons |-> (IF overdue
                      THEN <<Reason("exame(s) atrasado(s)", e.overdueExams)>> ELSE << >>)
                     \o (IF pending
                         THEN <<Reason("exames pendentes requerem atencao", e.pendingExams)>>
                         ELSE << >>)]

examsRisk(e) ==
    LET overdue == e.overdueExams > 0
        pending == e.pendingExams > 3
    IN  [score |-> (IF overdue THEN H(config.exams.overdueWeight) * e.overdueExams ELSE 0)
                   + (IF pending THEN H(config.exams.pendingWeight) ELSE 0),
         reasons |-> (IF overdue
                      THEN <<Reason("exame(s) atrasado(s)", e.overdueExams)>> ELSE << >>)
                     \o (IF pending
                         THEN <<Reason("exames pendentes requerem atencao", e.pendingExams)>>
                         ELSE << >>)]

\* Variant: the levels' upper limits are taken one point too high (30, 60).
riskLevel_LimitsOneHigher(score) ==
    IF score <= H(config.riskLevels.lowMax + 1) THEN "low"
    ELSE IF score <= H(config.riskLevels.moderateMax + 1) THEN "moderate"
    ELSE "high"

riskLevel(score) ==
    IF score <= H(config.riskLevels.lowMax) THEN "low"
    ELSE IF score <= H(config.riskLevels.moderateMax) THEN "moderate"
    ELSE "high"

\* Variant: the exam reasons are listed before the vital-sign reasons.
calculateRiskScore_ExamReasonsFirst(a, v, e) ==
    LET adh == adherenceRisk(a)
        ex == examsRisk(e)
        fd == v.flagDetails
        raw == adh.score + SumSeq([i \in 1..Len(fd) |-> flagScore(fd[i])]) + ex.score
        score == Min(H(100), Max(0, raw))
    IN  [value |-> Round(score, 1),
         level |-> riskLevel(score),
         reasons |-> adh.reasons \o ex.reasons \o [i \in 1..Len(fd) |-> flagReason(fd[i])]]

calculateRiskScore(a, v, e) ==
    LET adh == adherenceRisk(a)
        ex == examsRisk(e)
        fd == v.flagDetails
        raw == adh.score + SumSeq([i \in 1..Len(fd) |-> flagScore(fd[i])]) + ex.score
        score == Min(H(100), Max(0, raw))
    IN  [value |-> Round(score, 1),
         level |-> riskLevel(score),
         reasons |-> adh.reasons \o [i \in 1..Len(fd) |-> flagReason(fd[i])] \o ex.reasons]

---------------------------------------------------------------------------
\* generateRecommendations.  A recommendation is the message (named by its
\* opening words) and the number printed in it, if any.

Rec(msg) == [msg |-> msg, arg |-> None]
RecN(msg, n) == [msg |-> msg, arg |-> Some(n)]

DefaultRecommendation == Rec("Paciente apresenta boa adesao e sinais vitais dentro dos parametros")

\* Array.prototype.includes
Includes(s, x) == \E i \in 1..Len(s) : s[i] = x

\* flagDetails.find(d => d.flag === flag) is defined and has severity 'high'
HighSeverity(v, flag) ==
    LET found == SelectSeq(v.flagDetails, LAMBDA d : d.flag = flag)
    IN  found # << >> /\ found[1].severity = "high"

adherenceRecs(a) ==
    IF a.adherenceStatus = "bad"
    THEN <<Rec("Refoccar estrategias de adesao"), Rec("Configurar lembretes mais frequentes")>>
    ELSE IF a.adherenceStatus = "medium"
    THEN <<Rec("Reforcar a importancia da adesao")>>
    ELSE << >>

vitalsRecs(v) ==
    (IF Includes(v.flags, "PRESSURE_HIGH")
     THEN IF HighSeverity(v, "PRESSURE_HIGH")
          THEN <<Rec("URGENTE: Pressao arterial muito elevada")>>
          ELSE <<Rec("Avaliar ajuste da medicacao anti-hipertensiva")>>
     ELSE << >>)
    \o (IF Includes(v.flags, "PRESSURE_LOW")
        THEN <<Rec("Investigar causas de hipotensao")>> ELSE << >>)
    \o (IF Includes(v.flags, "GLUCOSE_HIGH")
        THEN <<Rec("Glicemia acima da meta"),
               Rec("Intensificar frequencia de monitorizacao glicemica")>>
        ELSE << >>)
    \o (IF Includes(v.flags, "GLUCOSE_LOW")
        THEN IF HighSeverity(v, "GLUCOSE_LOW")
             THEN <<Rec("URGENTE: Episodios de hipoglicemia grave detectados")>>
             ELSE <<Rec("Atencao aos episodios de hipoglicemia")>>
        ELSE << >>)
    \o (IF Includes(v.flags, "OXYGEN_LOW")
        THEN <<Rec("Saturacao de oxigenio baixa")>> ELSE << >>)

examsRecs(e) ==
    (IF e.overdueExams > 0
     THEN <<RecN("Reagendar exame(s) atrasado(s)", e.overdueExams)>> ELSE << >>)
    \o (IF e.pendingExams > 3
        THEN <<Rec("Organizar agenda de exames pendentes")>> ELSE << >>)

\* Variant: a high level is answered with the first of its two messages only.
riskRecs_OneMessage(r) ==
    IF r.level = "high"
    THEN <<Rec("RISCO ALTO: Agendar consulta presencial urgente")>>
    ELSE IF r.level = "moderate"
    THEN <<Rec("Risco moderado: agendar consulta de acompanhamento")>>
    ELSE << >>

riskRecs(r) ==
    IF r.level = "high"
    THEN <<Rec("RISCO ALTO: Agendar consulta presencial urgente"),
           Rec("Considerar intensificar acompanhamento")>>
    ELSE IF r.level = "moderate"
    THEN <<Rec("Risco moderado: agendar consulta de acompanhamento")>>
    ELSE << >>

\* Variant: the default message is appended whatever the list holds.
generateRecommendations_DefaultAlways(a, v, e, r) ==
    adherenceRecs(a) \o vitalsRecs(v) \o examsRecs(e) \o riskRecs(r)
    \o <<DefaultRecommendation>>

generateRecommendations(a, v, e, r) ==
    LET recommendations == adherenceRecs(a) \o vitalsRecs(v) \o examsRecs(e) \o riskRecs(r)
    IN  IF Len(recommendations) = 0 THEN <<DefaultRecommendation>> ELSE recommendations

---------------------------------------------------------------------------
\* generatePatientSummary.  The function runs to completion without a
\* suspension point; each analyzer and the final assembly read the clock on
\* their own (tAdherence <= tVitals <= tExams <= tGenerated).

generatePatientSummary(pid, rs, vs, es, tAdherence, tVitals, tExams, tGenerated) ==
    LET adherence == analyzeAdherence(rs, tAdherence)
        vitalsAnalysis == analyzeVitals(vs, tVitals)
        examsAnalysis == analyzeExams(es, tExams)
        riskScore == calculateRiskScore(adherence, vitalsAnalysis, examsAnalysis)
        recommendations ==
            generateRecommendations(adherence, vitalsAnalysis, examsAnalysis, riskScore)
    IN  [patientId |-> pid,
         generatedAt |-> toISOString(tGenerated),
         adherence |-> adherence,
         vitals |-> vitalsAnalysis,
         exams |-> examsAnalysis,
         riskScore |-> riskScore,
         recommendations |-> recommendations]

---------------------------------------------------------------------------
\* Input records.

ReminderStatuses == {"pending", "taken", "missed", "skipped", "late"}

Reminder(scheduledAt, status) == [scheduledAt |-> scheduledAt, status |-> status]

\* tomorrow, yesterday, exactly 30 days before tick 0, one tick earlier
ReminderTimes == {Days(1), -Days(1), -Days(AdherenceDays), -Days(AdherenceDays) - 1}

ReminderDomain == {Reminder(t, s) : t \in ReminderTimes, s \in ReminderStatuses}

\* Reminders of the last day, each taken or missed.
UniformReminderDomain == {Reminder(-Days(1), s) : s \in {"taken", "missed"}}

ReminderInputs ==
    SeqUpTo(ReminderDomain, MaxReminders)
    \cup SeqUpTo(UniformReminderDomain, MaxUniformReminders)

\* The tests' createRemindersWithAdherence(targetPercentage), called at tick
\* 0: one reminder a day for DailyReminders days, today's first, the first
\* "taken" ones taken and the others missed.
DailyReminders == 100

createRemindersWithAdherence(targetPercentage) ==
    LET total == DailyReminders
        taken == Floor(total * targetPercentage, 100)
    IN [k \in 1..total |->
          Reminder(-Days(k - 1), IF k - 1 < taken THEN "taken" ELSE "missed")]

Vital(type, recordedAt, systolic, diastolic, numericValue) ==
    [type |-> type, recordedAt |-> recordedAt, systolic |-> systolic,
     diastolic |-> diastolic, numericValue |-> numericValue]

\* Measurements are dated in the past: yesterday, or exactly 7 days before
\* tick 0.
VitalTimes == {-Days(1), -Days(VitalsDays)}

PressureReadings ==
    {<<None, None>>,
     <<Some(T(120)), Some(T(80))>>,
     <<Some(T(145)), Some(T(92))>>,
     <<Some(T(165)), Some(T(100))>>,
     <<Some(T(85)), Some(T(55))>>}

PressureDomain ==
    {Vital("blood_pressure", t, p[1], p[2], None) : t \in VitalTimes, p \in PressureReadings}

GlucoseReadings == {None, Some(T(100)), Some(T(65)), Some(T(190))}

GlucoseDomain ==
    {Vital("glucose", t, None, None, x) : t \in VitalTimes, x \in GlucoseReadings}

\* Readings of the channels judged by their latest reading, at and around
\* the limits: heart rate 100 and 50 bpm, temperature 38.0 and 35.0 C, oxygen
\* saturation 92, 90 and 88 %.
HeartRateReadings == {None, Some(T(75)), Some(T(100)), Some(T(50))}
TemperatureReadings == {Some(365), Some(380), Some(350)}
OxygenReadings == {Some(T(93)), Some(T(92)), Some(T(90)), Some(T(88))}

HeartRateDomain ==
    {Vital("heart_rate", t, None, None, x) : t \in VitalTimes, x \in HeartRateReadings}
TemperatureDomain ==
    {Vital("temperature", t, None, None, x) : t \in VitalTimes, x \in TemperatureReadings}
OxygenDomain ==
    {Vital("oxygen_saturation", t, None, None, x) : t \in VitalTimes, x \in OxygenReadings}

\* Readings of yesterday that meet the high rule and the low rule of one
\* channel: 165/55 twice; two high and two low pressure readings; glucose
\* 190 twice and 65 once.
OppositeInputs ==
    {<<Vital("blood_pressure", -Days(1), Some(T(165)), Some(T(55)), None),
       Vital("blood_pressure", -Days(1), Some(T(165)), Some(T(55)), None)>>,
     <<Vital("blood_pressure", -Days(1), Some(T(165)), Some(T(100)), None),
       Vital("blood_pressure", -Days(1), Some(T(145)), Some(T(92)), None),
       Vital("blood_pressure", -Days(VitalsDays), Some(T(85)), Some(T(55)), None),
       Vital("blood_pressure", -Days(VitalsDays), Some(T(85)), Some(T(55)), None)>>,
     <<Vital("glucose", -Days(1), None, None, Some(T(190))),
       Vital("glucose", -Days(1), None, None, Some(T(190))),
       Vital("glucose", -Days(1), None, None, Some(T(65)))>>}

ChannelInputs ==
    SeqUpTo(HeartRateDomain, MaxVitals) \cup SeqUpTo(TemperatureDomain, MaxVitals)
    \cup SeqUpTo(OxygenDomain, MaxVitals) \cup OppositeInputs

VitalInputs ==
    SeqUpTo(PressureDomain, MaxVitals) \cup SeqUpTo(GlucoseDomain, MaxVitals)

ExamStatuses == {"scheduled", "completed", "pending_results", "cancelled"}

\* An exam as the tests' createExam builds it: created 30 days ago, and
\* completed with a result at tick 0 when its status is completed.
Exam(type, status, scheduledAt) ==
    [type |-> type, status |-> status, scheduledAt |-> scheduledAt,
     completedAt |-> IF status = "completed" THEN Some(0) ELSE None,
     resultAt |-> IF status = "completed" THEN Some(0) ELSE None,
     result |-> IF status = "completed" THEN Some(<<"N", "o", "r", "m", "a", "l">>) ELSE None,
     createdAt |-> -Days(30)]

\* no date, tomorrow, exactly 30 days before tick 0, one tick earlier, 40 days
ExamTimes ==
    {None, Some(Days(1)), Some(-Days(30)), Some(-Days(30) - 1), Some(-Days(40))}

ExamDomain == {Exam("Hemograma", s, t) : s \in ExamStatuses, t \in ExamTimes}

\* Exams that differ in which date orders them: by completedAt (though
\* scheduled earlier), by scheduledAt, and by createdAt alone.
DigestDomain ==
    {[type |-> "ECG", status |-> "completed", scheduledAt |-> Some(-Days(10)),
      completedAt |-> Some(-Days(2)), resultAt |-> Some(-Days(1)),
      result |-> Some(<<"O", "K">>), createdAt |-> -Days(20)],
     [type |-> "Glicemia", status |-> "scheduled", scheduledAt |-> Some(-Days(4)),
      completedAt |-> None, resultAt |-> None, result |-> None, createdAt |-> -Days(20)],
     [type |-> "Hemograma", status |-> "cancelled", scheduledAt |-> None,
      completedAt |-> None, resultAt |-> None, result |-> None, createdAt |-> -Days(6)]}

ExamInputs == SeqUpTo(ExamDomain, MaxExams) \cup SeqUpTo(DigestDomain, MaxDigestExams)

\* n copies of one record.
Repeat(x, n) == [i \in 1..n |-> x]

\* Reminder histories of the last day giving each adherence status: none
\* (rate 100, good), 3 of 4 taken (75, medium), 1 of 1 missed (0, bad).
AdherenceProfiles ==
    {<< >>,
     Repeat(Reminder(-Days(1), "taken"), 3) \o <<Reminder(-Days(1), "missed")>>,
     <<Reminder(-Days(1), "missed")>>}

Pressure(sys, dia) == Vital("blood_pressure", -Days(1), Some(T(sys)), Some(T(dia)), None)
Numeric(type, x) == Vital(type, -Days(1), None, None, Some(x))

\* Readings of yesterday, per channel: none, and one history for each flag
\* and severity the risk score and the recommendations distinguish.
PressureProfiles ==
    {<< >>,
     Repeat(Pressure(145, 92), 2),
     Repeat(Pressure(165, 100), 2),
     Repeat(Pressure(85, 55), 2),
     Repeat(Pressure(75, 50), 2),
     Repeat(Pressure(165, 55), 2)}

GlucoseProfiles ==
    {<< >>,
     Repeat(Numeric("glucose", T(190)), 2),
     Repeat(Numeric("glucose", T(260)), 2),
     <<Numeric("glucose", T(65))>>,
     <<Numeric("glucose", T(45))>>}

HeartRateProfiles ==
    {<< >>,
     <<Numeric("heart_rate", T(105))>>,
     <<Numeric("heart_rate", T(125))>>,
     <<Numeric("heart_rate", T(45))>>}

\* 38.2 C and 33.8 C
TemperatureProfiles ==
    {<< >>, <<Numeric("temperature", 382)>>, <<Numeric("temperature", 338)>>}

OxygenProfiles ==
    {<< >>,
     <<Numeric("oxygen_saturation", T(91))>>,
     <<Numeric("oxygen_saturation", T(87))>>}

VitalProfiles ==
    {bp \o gl \o hr \o tp \o ox :
        bp \in PressureProfiles, gl \in GlucoseProfiles, hr \in HeartRateProfiles,
        tp \in TemperatureProfiles, ox \in OxygenProfiles}

\* k exams scheduled 40 days ago and still waiting, then p exams scheduled
\* for next week.
ExamProfile(k, p) ==
    Repeat(Exam("Hemograma", "scheduled", Some(-Days(40))), k)
    \o Repeat(Exam("Glicemia", "scheduled", Some(Days(7))), p)

ExamProfiles == {ExamProfile(k, p) : k \in 0..MaxOverdue, p \in 0..MaxPending}

\* The input of the test 'should calculate moderate risk': two readings of
\* yesterday, 145/92 then 142/90, one exam scheduled for next week, and the
\* reminders of createRemindersWithAdherence(80) or of any adherence profile.
ModerateRiskInputs ==
    {<<rs, <<Pressure(145, 92), Pressure(142, 90)>>,
       <<Exam("Hemograma", "scheduled", Some(Days(7)))>>>> :
        rs \in AdherenceProfiles \cup {createRemindersWithAdherence(80)}}

\* Every vital history with no exam or one overdue exam, every exam history
\* with no vital or a low oxygen reading, and the moderate-risk test inputs.
RiskInputs ==
    ModerateRiskInputs
    \cup
    {<<rs, vs, es>> :
        rs \in AdherenceProfiles, vs \in VitalProfiles,
        es \in {ExamProfile(0, 0), ExamProfile(1, 0)}}
    \cup
    {<<rs, vs, es>> :
        rs \in AdherenceProfiles,
        vs \in {<< >>, <<Numeric("oxygen_saturation", T(91))>>},
        es \in ExamProfiles}

---------------------------------------------------------------------------
\* The state machine.

NoReads == [entry |-> 0, adherence |-> 0, vitals |-> 0, exams |-> 0, generatedAt |-> 0]
NoSummary == [patientId |-> None]
NoPrevious == [summary |-> NoSummary]
NoCalls == << >>
NoRequest == [user |-> None, status |-> None]

\* The caller's arrays after generatePatientSummary returned.  The analyzers
\* work on copies: reminders.filter and vitals.filter build new arrays,
\* groupVitalsByType sorts the arrays it built itself, and analyzeExams sorts
\* [...exams].
argumentsAfter_SortInPlace(rs, vs, es) ==
    [reminders |-> rs, vitals |-> vs, exams |-> sortedExams(es)]

argumentsAfter(rs, vs, es) == [reminders |-> rs, vitals |-> vs, exams |-> es]

\* new AIService(override), and a caller holding records.
InitWithConfig(override, rs, vs, es) ==
    /\ config = Constructor(override)
    /\ now = 0
    /\ patientId = "patient-123"
    /\ reminders = rs
    /\ vitals = vs
    /\ exams = es
    /\ pc = "ready"
    /\ reads = NoReads
    /\ summary = NoSummary
    /\ previous = NoPrevious
    /\ calls = NoCalls
    /\ http = NoRequest

\* export const aiService = new AIService(), and a caller holding records.
InitWith(rs, vs, es) == InitWithConfig(NoOverride, rs, vs, es)

\* await aiService.generatePatientSummary(patientId, reminders, vitals, exams)
Generate ==
    /\ pc = "ready"
    /\ \E tAdherence \in now..MaxClock :
      \E tVitals \in tAdherence..MaxClock :
        \E tExams \in tVitals..MaxClock :
          \E tGenerated \in tExams..MaxClock :
            /\ summary' = generatePatientSummary(patientId, reminders, vitals, exams,
                                                 tAdherence, tVitals, tExams, tGenerated)
            /\ reads' = [entry |-> now, adherence |-> tAdherence, vitals |-> tVitals,
                         exams |-> tExams, generatedAt |-> tGenerated]
            /\ now' = tGenerated
            /\ pc' = "returned"
            /\ reminders' = argumentsAfter(reminders, vitals, exams).reminders
            /\ vitals' = argumentsAfter(reminders, vitals, exams).vitals
            /\ exams' = argumentsAfter(reminders, vitals, exams).exams
            /\ UNCHANGED <<config, patientId, previous, calls, http>>

Next == Generate

\* The same records in any order.
Reordered(s) ==
    {[i \in 1..Len(s) |-> s[p[i]]] : p \in Permutations(1..Len(s))}

\* A second call by the same caller, some time after the first returned, with
\* the same records, possibly handed over in another order; the caller keeps
\* the first call's result.
GenerateAgain ==
    /\ pc = "returned"
    /\ \E rs \in Reordered(reminders), vs \in Reordered(vitals), es \in Reordered(exams) :
      \E tEntry \in now..MaxClock :
        \E tAdherence \in tEntry..MaxClock :
          \E tVitals \in tAdherence..MaxClock :
            \E tExams \in tVitals..MaxClock :
              \E tGenerated \in tExams..MaxClock :
                /\ previous' = [reminders |-> reminders, vitals |-> vitals,
                                exams |-> exams, reads |-> reads, summary |-> summary]
                /\ reminders' = argumentsAfter(rs, vs, es).reminders
                /\ vitals' = argumentsAfter(rs, vs, es).vitals
                /\ exams' = argumentsAfter(rs, vs, es).exams
                /\ summary' = generatePatientSummary(patientId, rs, vs, es,
                                                     tAdherence, tVitals, tExams, tGenerated)
                /\ reads' = [entry |-> tEntry, adherence |-> tAdherence,
                             vitals |-> tVitals, exams |-> tExams,
                             generatedAt |-> tGenerated]
                /\ now' = tGenerated
                /\ pc' = "repeated"
                /\ UNCHANGED <<config, patientId, calls, http>>

NextRepeat == Generate \/ GenerateAgain

\* Records whose order can matter: two pressure readings taken at the same
\* instant, and exams of which one reaches its 31st day at the next tick.
RepeatVitals == {Pressure(165, 100), Pressure(145, 92)}
RepeatExams ==
    {Exam("Hemograma", "scheduled", Some(-Days(30) - 1)),
     Exam("ECG", "completed", Some(-Days(1)))}
RepeatReminders ==
    {<< >>, <<Reminder(-Days(1), "taken"), Reminder(-Days(1), "missed")>>}

\* Small mixed inputs.
MixedReminders ==
    {Reminder(-Days(1), "taken"), Reminder(-Days(1), "missed"),
     Reminder(-Days(1), "late"), Reminder(Days(1), "pending")}
MixedVitals ==
    {Vital("blood_pressure", -Days(1), Some(T(145)), Some(T(92)), None),
     Vital("glucose", -Days(1), None, None, Some(T(65))),
     Vital("heart_rate", -Days(1), None, None, Some(T(75))),
     Vital("oxygen_saturation", -Days(1), None, None, Some(T(88)))}
MixedExams ==
    {Exam("Hemograma", "completed", Some(-Days(1))),
     Exam("Glicemia", "scheduled", Some(Days(7))),
     Exam("ECG", "pending_results", Some(-Days(40))),
     Exam("Raio-X", "cancelled", None)}

Init ==
    \E rs \in SeqUpTo(MixedReminders, MaxMixed) :
      \E vs \in SeqUpTo(MixedVitals, MaxMixed) :
        \E es \in SeqUpTo(MixedExams, MaxMixed) : InitWith(rs, vs, es)

InitAdherence == \E rs \in ReminderInputs : InitWith(rs, << >>, << >>)
InitVitals == \E vs \in VitalInputs : InitWith(<< >>, vs, << >>)
InitChannels == \E vs \in ChannelInputs : InitWith(<< >>, vs, << >>)
InitExams == \E es \in ExamInputs : InitWith(<< >>, << >>, es)
InitDaily ==
    \E targetPercentage \in 0..100 :
        InitWith(createRemindersWithAdherence(targetPercentage), << >>, << >>)
InitRisk == \E i \in RiskInputs : InitWith(i[1], i[2], i[3])
\* Arguments of new AIService(config): none, a stricter valid adherence
\* table, an adherence table with goodThreshold < mediumThreshold, and risk
\* levels with lowMax > moderateMax.
ConfigOverrides ==
    {NoOverride,
     [adherence |-> [goodThreshold |-> 95, mediumThreshold |-> 80,
                     badWeight |-> 25, mediumWeight |-> 10]],
     [adherence |-> [goodThreshold |-> 70, mediumThreshold |-> 75,
                     badWeight |-> 25, mediumWeight |-> 10]],
     [riskLevels |-> [lowMax |-> 60, moderateMax |-> 59]]}

InitConfig ==
    \E o \in ConfigOverrides :
      \E rs \in AdherenceProfiles :
        \E es \in ExamProfiles : InitWithConfig(o, rs, << >>, es)
InitRepeat ==
    \E rs \in RepeatReminders :
      \E vs \in SeqUpTo(RepeatVitals, MaxRepeat) :
        \E es \in SeqUpTo(RepeatExams, MaxRepeat) : InitWith(rs, vs, es)

Spec == Init /\ [][Next]_vars
SpecAdherence == InitAdherence /\ [][Next]_vars
SpecVitals == InitVitals /\ [][Next]_vars
SpecChannels == InitChannels /\ [][Next]_vars
SpecExams == InitExams /\ [][Next]_vars
SpecDaily == InitDaily /\ [][Next]_vars
SpecRisk == InitRisk /\ [][Next]_vars
SpecRepeat == InitRepeat /\ [][NextRepeat]_vars
SpecConfig == InitConfig /\ [][Next]_vars

---------------------------------------------------------------------------
\* Several callers of the one exported aiService, each for its own patient.

PatientIds == <<"patient-1", "patient-2", "patient-3">>
Callers == 1..MaxCallers

\* Records a caller may hold: nothing; a medium history with two high
\* pressure readings; a missed reminder, a low oxygen reading, an overdue
\* exam and an exam of next week.
CallerInputs ==
    {<<(<< >>), (<< >>), (<< >>)>>,
     <<Repeat(Reminder(-Days(1), "taken"), 3) \o <<Reminder(-Days(1), "missed")>>,
       Repeat(Pressure(165, 100), 2), (<< >>)>>,
     <<(<<Reminder(-Days(1), "missed")>>), (<<Numeric("oxygen_saturation", T(87))>>),
       ExamProfile(1, 1)>>}

\* A caller about to call generatePatientSummary(patientId, reminders, vitals, exams).
Call(pid, rs, vs, es) ==
    [patientId |-> pid, reminders |-> rs, vitals |-> vs, exams |-> es,
     stage |-> "idle", reads |-> NoReads, promise |-> NoSummary, result |-> NoSummary]

\* The summary is an object built by the invocation itself and handed to
\* the promise of that invocation only.
settle_SharedResult(cs, c, s, r) ==
    [k \in DOMAIN cs |->
        IF k = c THEN [cs[k] EXCEPT !.stage = "settled", !.reads = r, !.promise = s]
        ELSE IF cs[k].stage = "settled" THEN [cs[k] EXCEPT !.promise = s]
        ELSE cs[k]]

settle(cs, c, s, r) ==
    [cs EXCEPT ![c].stage = "settled", ![c].reads = r, ![c].promise = s]

\* Caller c calls aiService.generatePatientSummary: the body has no await, so
\* it runs to its return statement before any other caller does anything.
Invoke(c) ==
    /\ calls[c].stage = "idle"
    /\ \E tAdherence \in now..MaxClock :
      \E tVitals \in tAdherence..MaxClock :
        \E tExams \in tVitals..MaxClock :
          \E tGenerated \in tExams..MaxClock :
            LET call == calls[c]
                after == argumentsAfter(call.reminders, call.vitals, call.exams)
                s == generatePatientSummary(call.patientId, call.reminders, call.vitals,
                                            call.exams, tAdherence, tVitals, tExams,
                                            tGenerated)
                r == [entry |-> now, adherence |-> tAdherence, vitals |-> tVitals,
                      exams |-> tExams, generatedAt |-> tGenerated]
            IN /\ calls' = settle([calls EXCEPT ![c].reminders = after.reminders,
                                                 ![c].vitals = after.vitals,
                                                 ![c].exams = after.exams], c, s, r)
               /\ now' = tGenerated
    /\ UNCHANGED <<config, patientId, reminders, vitals, exams, pc, reads, summary,
                   previous, http>>

\* The caller's "await" continues with the value of its promise.
Resume(c) ==
    /\ calls[c].stage = "settled"
    /\ calls' = [calls EXCEPT ![c].stage = "resumed", ![c].result = calls[c].promise]
    /\ UNCHANGED <<config, now, patientId, reminders, vitals, exams, pc, reads, summary,
                   previous, http>>

NextConcurrent == \E c \in Callers : Invoke(c) \/ Resume(c)

InitConcurrent ==
    /\ config = Constructor(NoOverride)
    /\ now = 0
    /\ patientId = "patient-123"
    /\ reminders = << >>
    /\ vitals = << >>
    /\ exams = << >>
    /\ pc = "ready"
    /\ reads = NoReads
    /\ summary = NoSummary
    /\ previous = NoPrevious
    /\ http = NoRequest
    /\ \E inputs \in [Callers -> CallerInputs] :
         calls = [c \in Callers |->
                    Call(PatientIds[c], inputs[c][1], inputs[c][2], inputs[c][3])]

SpecConcurrent == InitConcurrent /\ [][NextConcurrent]_vars

---------------------------------------------------------------------------
\* AIController.getPatientSummary: GET /api/v1/ai/patient/:patientId/summary.
\* http.user is req.user, patientId is req.params.patientId ("" when the
\* parameter is missing), http.status the status of the response.

Roles == {"ADMIN", "PATIENT", "CAREGIVER", "PROFESSIONAL", "GUEST"}

UserIds ==
    {"patient-123", "patient-456", "caregiver-1", "caregiver-2",
     "professional-1", "professional-2", "admin-1"}

\* req.user: absent, or with an id and a role of which either may be absent.
RequestUsers ==
    {None} \cup
    {Some([id |-> i, role |-> r]) :
        i \in {None} \cup {Some(u) : u \in UserIds},
        r \in {None} \cup {Some(x) : x \in Roles}}

RequestPatientIds == {"", "patient-123", "patient-456"}

checkPatientAccess(userId, userRole, pid) ==
    IF userRole = "ADMIN" THEN TRUE
    ELSE IF userRole = "PATIENT" THEN userId = pid
    ELSE IF userRole = "CAREGIVER" THEN TRUE    \* "Temporario"
    ELSE IF userRole = "PROFESSIONAL" THEN TRUE \* "Temporario"
    ELSE FALSE

\* The nondecreasing sequences of n clock readings from lo up to hi: the
\* clock passes each of the instants lo+1 .. hi after some number of readings.
ClockReadings(n, lo, hi) ==
    {[i \in 1..n |-> lo + Cardinality({k \in 1..(hi - lo) : p[k] < i})] :
        p \in [1..(hi - lo) -> 0..n]}

\* The repositories' stand-ins: fixed records dated relative to Date.now(),
\* which every date expression reads anew (t is the sequence of the readings
\* that date a modelled field).
getPatientReminders(pid, t) ==
    <<Reminder(t[1] - Days(1), "taken"),
      Reminder(t[2] - Days(2), "taken"),
      Reminder(t[3] - Days(3), "missed"),
      Reminder(t[4] - Days(4), "late"),
      Reminder(t[5] - Days(5), "taken")>>

getPatientVitals(pid, t) ==
    <<Vital("blood_pressure", t[1] - Days(1), Some(T(145)), Some(T(92)), None),
      Vital("blood_pressure", t[2] - Days(2), Some(T(142)), Some(T(88)), None),
      Vital("glucose", t[3] - Days(1), None, None, Some(T(190))),
      Vital("glucose", t[4] - Days(2), None, None, Some(T(185))),
      Vital("heart_rate", t[5] - Days(1), None, None, Some(T(78))),
      Vital("oxygen_saturation", t[6] - Days(1), None, None, Some(T(97))),
      Vital("temperature", t[7] - Days(1), None, None, Some(365))>>

HemogramaResult ==
    <<"H", "e", "m", "o", "g", "l", "o", "b", "i", "n", "a", ":", " ", "1",
      "4", ".", "5", " ", "g", "/", "d", "L", " ", "(", "n", "o", "r", "m",
      "a", "l", ")", ".", " ", "L", "e", "u", "c", "o", "c", "i", "t", "o",
      "s", ":", " ", "7", ".", "2", "0", "0", "/", "m", "m", "3", " ", "(",
      "n", "o", "r", "m", "a", "l", ")", ".">>

GlicemiaResult ==
    <<"1", "8", "5", " ", "m", "g", "/", "d", "L", " ", "-", " ", "A", "c",
      "i", "m", "a", " ", "d", "o", " ", "i", "d", "e", "a", "l">>

getPatientExams(pid, t) ==
    <<[type |-> "Hemograma", status |-> "completed",
       scheduledAt |-> Some(t[1] - Days(60)), completedAt |-> Some(t[2] - Days(58)),
       resultAt |-> Some(t[3] - Days(57)), result |-> Some(HemogramaResult),
       createdAt |-> t[4] - Days(62)],
      [type |-> "Glicemia de jejum", status |-> "completed",
       scheduledAt |-> Some(t[5] - Days(30)), completedAt |-> Some(t[6] - Days(28)),
       resultAt |-> Some(t[7] - Days(27)), result |-> Some(GlicemiaResult),
       createdAt |-> t[8] - Days(32)],
      [type |-> "Hemoglobina glicada (HbA1c)", status |-> "scheduled",
       scheduledAt |-> Some(t[9] - Days(10)), completedAt |-> None,
       resultAt |-> None, result |-> None, createdAt |-> t[10] - Days(45)],
      [type |-> "Perfil lipidico", status |-> "pending_results",
       scheduledAt |-> Some(t[11] - Days(5)), completedAt |-> Some(t[12] - Days(3)),
       resultAt |-> None, result |-> None, createdAt |-> t[13] - Days(40)],
      [type |-> "Eletrocardiograma", status |-> "scheduled",
       scheduledAt |-> Some(t[14] + Days(7)), completedAt |-> None,
       resultAt |-> None, result |-> None, createdAt |-> t[15] - Days(2)]>>

\* Clock readings of one handled request: 5 for the reminders, 7 for the
\* vitals, 15 for the exams, 4 inside generatePatientSummary.
RemindersReads == 5
VitalsReads == 7
ExamsReads == 15
SummaryReads == 4

Respond(code) ==
    /\ http' = [http EXCEPT !.status = Some(code)]
    /\ pc' = "responded"

\* The whole handler.
GetPatientSummary ==
    /\ pc = "request"
    /\ IF patientId = ""
       THEN /\ Respond(400)
            /\ UNCHANGED <<now, reminders, vitals, exams, reads, summary>>
       ELSE IF \/ ~IsSome(http.user)
               \/ ~IsSome(Val(http.user).id)
               \/ ~IsSome(Val(http.user).role)
       THEN /\ Respond(401)
            /\ UNCHANGED <<now, reminders, vitals, exams, reads, summary>>
       ELSE IF ~checkPatientAccess(Val(Val(http.user).id), Val(Val(http.user).role),
                                   patientId)
       THEN /\ Respond(403)
            /\ UNCHANGED <<now, reminders, vitals, exams, reads, summary>>
       ELSE \E t \in ClockReadings(RemindersReads + VitalsReads + ExamsReads
                                    + SummaryReads, now, MaxClock) :
              LET rs == getPatientReminders(patientId, SubSeq(t, 1, RemindersReads))
                  vs == getPatientVitals(patientId,
                            SubSeq(t, RemindersReads + 1, RemindersReads + VitalsReads))
                  fetched == RemindersReads + VitalsReads + ExamsReads
                  es == getPatientExams(patientId,
                            SubSeq(t, RemindersReads + VitalsReads + 1, fetched))
                  after == argumentsAfter(rs, vs, es)
              IN /\ reminders' = after.reminders
                 /\ vitals' = after.vitals
                 /\ exams' = after.exams
                 /\ summary' = generatePatientSummary(patientId, rs, vs, es,
                                    t[fetched + 1], t[fetched + 2], t[fetched + 3],
                                    t[fetched + 4])
                 /\ reads' = [entry |-> t[fetched], adherence |-> t[fetched + 1],
                              vitals |-> t[fetched + 2], exams |-> t[fetched + 3],
                              generatedAt |-> t[fetched + 4]]
                 /\ now' = t[fetched + 4]
                 /\ Respond(200)
    /\ UNCHANGED <<config, patientId, previous, calls>>

NextController == GetPatientSummary

InitController ==
    /\ config = Constructor(NoOverride)
    /\ now = 0
    /\ patientId \in RequestPatientIds
    /\ reminders = << >>
    /\ vitals = << >>
    /\ exams = << >>
    /\ pc = "request"
    /\ reads = NoReads
    /\ summary = NoSummary
    /\ previous = NoPrevious
    /\ calls = NoCalls
    /\ \E u \in RequestUsers : http = [user |-> u, status |-> None]

SpecController == InitController /\ [][NextController]_vars

---------------------------------------------------------------------------
\* Properties.

Returned == pc = "returned"

NoMeasurements ==
    [systolic |-> None, diastolic |-> None, bloodGlucose |-> None,
     heartRate |-> None, temperature |-> None, oxygenSaturation |-> None]

\* C1: a call with empty reminder, vital and exam lists returns the neutral
\* summary: no reminders, rate 100, status good, no flags and no latest
\* measurements, all exam counts 0 and an empty digest, risk 0 / low without
\* reasons, and the default recommendation alone.
C1_EmptyInputsNeutral ==
    (Returned /\ reminders = << >> /\ vitals = << >> /\ exams = << >>) =>
        /\ summary.adherence.totalReminders = 0
        /\ summary.adherence.adherenceRate = 10000
        /\ summary.adherence.adherenceStatus = "good"
        /\ summary.vitals.flags = << >>
        /\ summary.vitals.flagDetails = << >>
        /\ summary.vitals.lastMeasurements = NoMeasurements
        /\ summary.exams.pendingExams = 0
        /\ summary.exams.overdueExams = 0
        /\ summary.exams.completedExams = 0
        /\ summary.exams.recentExams = << >>
        /\ summary.riskScore = [value |-> 0, level |-> "low", reasons |-> << >>]
        /\ summary.recommendations = <<DefaultRecommendation>>

C1_Witness ==
    Returned /\ reminders = << >> /\ vitals = << >> /\ exams = << >>
    /\ summary.patientId = patientId

\* C2: for every reminder list, taken + late + missed <= totalReminders and
\* 0 <= adherenceRate <= 100.
C2_AdherenceBounds ==
    Returned =>
        LET a == summary.adherence
        IN  /\ a.taken + a.late + a.missed <= a.totalReminders
            /\ 0 <= a.adherenceRate
            /\ a.adherenceRate <= 10000

\* A counted reminder that is neither taken, late nor missed, and a rate
\* strictly inside the range.
C2_Witness ==
    /\ Returned
    /\ summary.adherence.taken + summary.adherence.late + summary.adherence.missed
         < summary.adherence.totalReminders
    /\ summary.adherence.adherenceRate > 0
    /\ summary.adherence.adherenceRate < 10000

\* C3: under the default configuration the status is good exactly when the
\* rate is >= 90, medium exactly when 75 <= rate < 90, bad exactly when the
\* rate is < 75 (both thresholds inclusive).
C3_StatusThresholds ==
    Returned =>
        LET a == summary.adherence
        IN  /\ a.adherenceStatus = "good" <=> a.adherenceRate >= 9000
            /\ a.adherenceStatus = "medium" <=>
                   (a.adherenceRate >= 7500 /\ a.adherenceRate < 9000)
            /\ a.adherenceStatus = "bad" <=> a.adherenceRate < 7500

\* A rate of exactly 90 (9 of 10 taken) classified good.
C3_Witness ==
    /\ Returned
    /\ summary.adherence.totalReminders = 10
    /\ summary.adherence.adherenceRate = 9000
    /\ summary.adherence.adherenceStatus = "good"

\* C4: the adherence counts cover exactly the reminders scheduled within the
\* 30 days ending at the clock reading of the analysis; a reminder scheduled
\* earlier, or after that reading, is not counted and does not change the
\* rate.
C4_TrailingWindowOnly ==
    Returned =>
        LET clock == reads.adherence
            inWindow == SelectSeq(reminders,
                            LAMBDA r : /\ r.scheduledAt >= clock - 30 * TicksPerDay
                                       /\ r.scheduledAt <= clock)
            a == summary.adherence
        IN  /\ a.totalReminders = Len(inWindow)
            /\ a.taken = Len(SelectSeq(inWindow, LAMBDA r : r.status = "taken"))
            /\ a.late = Len(SelectSeq(inWindow, LAMBDA r : r.status = "late"))
            /\ a.missed = Len(SelectSeq(inWindow, LAMBDA r : r.status = "missed"))
            /\ a.adherenceRate =
                   (IF Len(inWindow) > 0
                    THEN Round((a.taken + a.late) * 10000, Len(inWindow)) ELSE 10000)

\* A record dated within the 7 days ending at the clock reading of the
\* vitals analysis.
InVitalsWindow(v) ==
    v.recordedAt >= reads.vitals - 7 * TicksPerDay /\ v.recordedAt <= reads.vitals

PressureComplete ==
    \A i \in 1..Len(vitals) :
        vitals[i].type = "blood_pressure" =>
            IsSome(vitals[i].systolic) /\ IsSome(vitals[i].diastolic)

HighPressureReadings ==
    {i \in 1..Len(vitals) :
        /\ vitals[i].type = "blood_pressure" /\ InVitalsWindow(vitals[i])
        /\ (vitals[i].systolic[1] >= 1400 \/ vitals[i].diastolic[1] >= 900)}

LowPressureReadings ==
    {i \in 1..Len(vitals) :
        /\ vitals[i].type = "blood_pressure" /\ InVitalsWindow(vitals[i])
        /\ (vitals[i].systolic[1] <= 900 \/ vitals[i].diastolic[1] <= 600)}

\* C5: when every blood-pressure record carries systolic and diastolic,
\* PRESSURE_HIGH is flagged exactly when at least 2 readings of the last 7
\* days have systolic >= 140 or diastolic >= 90, and PRESSURE_LOW exactly
\* when at least 2 have systolic <= 90 or diastolic <= 60.
C5_PressureConfirmation ==
    (Returned /\ PressureComplete) =>
        /\ Includes(summary.vitals.flags, "PRESSURE_HIGH") <=>
               Cardinality(HighPressureReadings) >= 2
        /\ Includes(summary.vitals.flags, "PRESSURE_LOW") <=>
               Cardinality(LowPressureReadings) >= 2

\* Two high readings in the window raise the flag while a third record lies
\* outside the window.
C5_Witness ==
    /\ Returned /\ PressureComplete
    /\ Includes(summary.vitals.flags, "PRESSURE_HIGH")
    /\ Cardinality(HighPressureReadings) = 2
    /\ \E i \in 1..Len(vitals) : ~InVitalsWindow(vitals[i])

GlucoseReadingsInWindow(Test(_)) ==
    {i \in 1..Len(vitals) :
        /\ vitals[i].type = "glucose" /\ InVitalsWindow(vitals[i])
        /\ IsSome(vitals[i].numericValue) /\ Test(vitals[i].numericValue[1])}

\* C6: GLUCOSE_LOW is flagged whenever at least one glucose reading of the
\* last 7 days is <= 70, also when it is not the most recent one, while
\* GLUCOSE_HIGH is flagged only when at least two are >= 180.
C6_GlucoseAsymmetry ==
    Returned =>
        /\ GlucoseReadingsInWindow(LAMBDA x : x <= 700) # {} =>
               Includes(summary.vitals.flags, "GLUCOSE_LOW")
        /\ Includes(summary.vitals.flags, "GLUCOSE_HIGH") =>
               Cardinality(GlucoseReadingsInWindow(LAMBDA x : x >= 1800)) >= 2

\* A record that carries the numbers its channel requires.
WellFormed(v) ==
    IF v.type = "blood_pressure" THEN IsSome(v.systolic) /\ IsSome(v.diastolic)
    ELSE IsSome(v.numericValue)

\* C7: a vital record without the number its channel requires is skipped on
\* its own: latest values and flags are those of the remaining well-formed
\* records, wherever the malformed record sits in recency order.
C7_MalformedSkipped ==
    Returned =>
        summary.vitals = analyzeVitals(SelectSeq(vitals, WellFormed), reads.vitals)

ExamsWith(Test(_)) == {i \in 1..Len(exams) : Test(exams[i])}

PendingStatus(e) == e.status \in {"scheduled", "pending_results"}

\* C8: pendingExams counts the exams with status scheduled or
\* pending_results, completedExams those with status completed, cancelled
\* exams are in neither count, and overdueExams <= pendingExams.
C8_ExamCounts ==
    Returned =>
        LET x == summary.exams
        IN  /\ x.pendingExams = Cardinality(ExamsWith(PendingStatus))
            /\ x.completedExams = Cardinality(ExamsWith(LAMBDA e : e.status = "completed"))
            /\ x.pendingExams + x.completedExams
                 = Len(exams) - Cardinality(ExamsWith(LAMBDA e : e.status = "cancelled"))
            /\ x.overdueExams <= x.pendingExams

\* A cancelled exam dated 40 days back beside an overdue pending one.
C8_Witness ==
    /\ Returned
    /\ \E i \in 1..Len(exams) :
          /\ exams[i].status = "cancelled"
          /\ exams[i].scheduledAt = <<-(40 * TicksPerDay)>>
    /\ summary.exams.overdueExams = 1
    /\ summary.exams.pendingExams = 1

\* Time elapsed since the exam's scheduled date at the clock reading of the
\* exams analysis, in ticks.
Elapsed(e) == reads.exams - e.scheduledAt[1]

\* C9 as stated: a pending exam is overdue exactly when its scheduledAt is
\* more than 30 days before the clock reading.
C9_OverdueMoreThan30Days ==
    Returned =>
        summary.exams.overdueExams =
            Cardinality(ExamsWith(LAMBDA e : /\ PendingStatus(e) /\ e.scheduledAt # << >>
                                             /\ Elapsed(e) > 30 * TicksPerDay))

\* C9 as amended: a pending exam is overdue exactly when more than 30 whole
\* days have elapsed since its scheduledAt, that is when it was scheduled at
\* least 31 full days before the clock reading; a pending exam without
\* scheduledAt is never overdue.
C9_OverdueWholeDays ==
    Returned =>
        summary.exams.overdueExams =
            Cardinality(ExamsWith(LAMBDA e : /\ PendingStatus(e) /\ e.scheduledAt # << >>
                                             /\ Elapsed(e) >= 31 * TicksPerDay))

\* One pending exam 40 days back is counted, one between 30 and 31 days back
\* is not.
C9_Witness ==
    /\ Returned
    /\ summary.exams.overdueExams = 1
    /\ \E i \in 1..Len(exams) :
          /\ PendingStatus(exams[i]) /\ exams[i].scheduledAt # << >>
          /\ Elapsed(exams[i]) = 40 * TicksPerDay
    /\ \E i \in 1..Len(exams) :
          /\ PendingStatus(exams[i]) /\ exams[i].scheduledAt # << >>
          /\ Elapsed(exams[i]) > 30 * TicksPerDay
          /\ Elapsed(exams[i]) < 31 * TicksPerDay

\* The date the digest is ordered by: completedAt, else scheduledAt, else
\* createdAt.
DigestKey(e) ==
    IF e.completedAt # << >> THEN e.completedAt[1]
    ELSE IF e.scheduledAt # << >> THEN e.scheduledAt[1]
    ELSE e.createdAt

\* C10: recentExams has min(5, number of exams) entries; they are the exams
\* of greatest date (completedAt, else scheduledAt, else createdAt) in
\* descending order of that date, and no exam left out has a later date than
\* an exam listed.
C10_RecentDigest ==
    Returned =>
        LET sorted == sortedExams(exams)
            n == Len(exams)
            k == IF n < 5 THEN n ELSE 5
            digest == summary.exams.recentExams
        IN  /\ Len(digest) = k
            /\ Len(sorted) = n
            /\ \A e \in {exams[i] : i \in 1..n} :
                   Cardinality({i \in 1..n : sorted[i] = e})
                     = Cardinality({i \in 1..n : exams[i] = e})
            /\ \A i \in 1..k : digest[i] = examSummary(sorted[i], reads.exams)
            /\ \A i \in 1..k : \A j \in 1..k :
                   i < j => DigestKey(sorted[i]) >= DigestKey(sorted[j])
            /\ \A i \in 1..k : \A j \in (k + 1)..n :
                   DigestKey(sorted[j]) <= DigestKey(sorted[i])

\* Six exams given oldest first: five are listed and the oldest is left out.
C10_Witness ==
    /\ Returned
    /\ Len(exams) = 6
    /\ Len(summary.exams.recentExams) = 5
    /\ DigestKey(exams[1]) < DigestKey(exams[2])
    /\ DigestKey(exams[2]) < DigestKey(exams[6])
    /\ summary.exams.recentExams[1].type = exams[6].type
    /\ \A i \in 1..5 : summary.exams.recentExams[i].type # exams[1].type

\* C11: under the default configuration riskScore.value lies in [0,100]
\* and the level follows from the value alone: low exactly when value <= 29,
\* moderate exactly when 30 <= value <= 59, high exactly when value >= 60;
\* no value lies strictly between 29 and 30 or between 59 and 60.
C11_RiskRangeAndLevel ==
    Returned =>
        LET r == summary.riskScore
        IN  /\ 0 <= r.value /\ r.value <= 10000
            /\ r.level = "low" <=> r.value <= 2900
            /\ r.level = "moderate" <=> (3000 <= r.value /\ r.value <= 5900)
            /\ r.level = "high" <=> r.value >= 6000
            /\ ~(2900 < r.value /\ r.value < 3000)
            /\ ~(5900 < r.value /\ r.value < 6000)

\* A score of exactly 30 classified moderate.
C11_Witness ==
    /\ Returned
    /\ summary.riskScore.value = 3000
    /\ summary.riskScore.level = "moderate"

\* Points (in hundredths) a flag adds when pressure, glucose-high and oxygen
\* flags weigh 1.5 times their channel weight at severity high, GLUCOSE_LOW
\* always weighs 1.5 times, and heart-rate and temperature flags weigh their
\* base weight.
SeverityWeighted(d) ==
    LET base == CASE d.flag \in {"PRESSURE_HIGH", "PRESSURE_LOW"} -> 1500
                  [] d.flag \in {"GLUCOSE_HIGH", "GLUCOSE_LOW"} -> 1500
                  [] d.flag = "OXYGEN_LOW" -> 2000
                  [] OTHER -> 1000
        scaled == \/ d.flag = "GLUCOSE_LOW"
                  \/ /\ d.flag \in {"PRESSURE_HIGH", "PRESSURE_LOW", "GLUCOSE_HIGH", "OXYGEN_LOW"}
                     /\ d.severity = "high"
    IN  IF scaled THEN (base * 3) \div 2 ELSE base

AdherencePoints ==
    CASE summary.adherence.adherenceStatus = "bad" -> 2500
      [] summary.adherence.adherenceStatus = "medium" -> 1000
      [] OTHER -> 0

ExamPoints ==
    1500 * summary.exams.overdueExams
    + (IF summary.exams.pendingExams > 3 THEN 500 ELSE 0)

RECURSIVE FlagPoints(_)
FlagPoints(ds) ==
    IF ds = << >> THEN 0 ELSE SeverityWeighted(ds[1]) + FlagPoints(Tail(ds))

\* C12: the score is the clamped sum in which every PRESSURE_HIGH,
\* PRESSURE_LOW, GLUCOSE_HIGH and OXYGEN_LOW flag adds its channel weight
\* times 1.5 at severity high and times 1 otherwise, GLUCOSE_LOW adds the
\* glucose weight times 1.5 at any severity, heart-rate and temperature flags
\* add their base weight, and adherence adds 25 (bad), 10 (medium) or 0 (good).
C12_SeverityWeights ==
    Returned =>
        LET sum == AdherencePoints + FlagPoints(summary.vitals.flagDetails) + ExamPoints
        IN  summary.riskScore.value = (IF sum > 10000 THEN 10000 ELSE sum)

\* C13: exams add 15 for each overdue exam, without a cap on their number,
\* and 5 once when more than 3 exams are pending (nothing at 3, still 5 at
\* any larger count).  Stated on the summaries without a PRESSURE_LOW flag,
\* the rest of the sum being the adherence and flag points.
C13_ExamWeights ==
    (Returned /\ ~Includes(summary.vitals.flags, "PRESSURE_LOW")) =>
        LET overduePoints == 1500 * summary.exams.overdueExams
            pendingPoints == IF summary.exams.pendingExams > 3 THEN 500 ELSE 0
            sum == AdherencePoints + FlagPoints(summary.vitals.flagDetails)
                   + overduePoints + pendingPoints
        IN  summary.riskScore.value = (IF sum > 10000 THEN 10000 ELSE sum)

\* Two overdue exams among exactly three pending ones score 30.
C13_Witness ==
    /\ Returned
    /\ summary.exams.overdueExams = 2
    /\ summary.exams.pendingExams = 3
    /\ summary.adherence.adherenceStatus = "good"
    /\ summary.vitals.flags = << >>
    /\ summary.riskScore.value = 3000

\* Position of a flag's channel in the order pressure, glucose, heart rate,
\* temperature, oxygen.
ChannelRank(flag) ==
    CASE flag \in {"PRESSURE_HIGH", "PRESSURE_LOW"} -> 1
      [] flag \in {"GLUCOSE_HIGH", "GLUCOSE_LOW"} -> 2
      [] flag \in {"HEART_RATE_HIGH", "HEART_RATE_LOW"} -> 3
      [] flag \in {"TEMPERATURE_HIGH", "TEMPERATURE_LOW"} -> 4
      [] OTHER -> 5

\* The opening words of the reason each flag is explained with.
ReasonText ==
    [f \in {"PRESSURE_HIGH", "PRESSURE_LOW", "GLUCOSE_HIGH", "GLUCOSE_LOW",
            "HEART_RATE_HIGH", "HEART_RATE_LOW", "TEMPERATURE_HIGH",
            "TEMPERATURE_LOW", "OXYGEN_LOW"} |->
        CASE f = "PRESSURE_HIGH" -> "Pressao arterial frequentemente elevada"
          [] f = "PRESSURE_LOW" -> "Pressao arterial frequentemente baixa"
          [] f = "GLUCOSE_HIGH" -> "Glicemia frequentemente elevada"
          [] f = "GLUCOSE_LOW" -> "Episodios de hipoglicemia detectados"
          [] f = "HEART_RATE_HIGH" -> "Frequencia cardiaca elevada"
          [] f = "HEART_RATE_LOW" -> "Frequencia cardiaca baixa"
          [] f = "TEMPERATURE_HIGH" -> "Febre detectada"
          [] f = "TEMPERATURE_LOW" -> "Hipotermia detectada"
          [] f = "OXYGEN_LOW" -> "Saturacao de oxigenio baixa"]

ExpectedReasonTexts ==
    (CASE summary.adherence.adherenceStatus = "bad" -> <<"Baixa adesao aos medicamentos">>
       [] summary.adherence.adherenceStatus = "medium" ->
              <<"Adesao aos medicamentos pode melhorar">>
       [] OTHER -> << >>)
    \o [i \in 1..Len(summary.vitals.flags) |-> ReasonText[summary.vitals.flags[i]]]
    \o (IF summary.exams.overdueExams > 0 THEN <<"exame(s) atrasado(s)">> ELSE << >>)
    \o (IF summary.exams.pendingExams > 3
        THEN <<"exames pendentes requerem atencao">> ELSE << >>)

\* C14: reasons has exactly one entry per contribution to the score, in
\* contribution order: the adherence reason, then one reason per vital flag
\* with the channels in the order pressure, glucose, heart rate,
\* temperature, oxygen, then the overdue-exams reason, then the
\* pending-exams reason; reasons is non-empty when value > 0 and empty when
\* value = 0.
C14_ReasonsOrder ==
    Returned =>
        LET r == summary.riskScore
            flags == summary.vitals.flags
        IN  /\ [i \in 1..Len(r.reasons) |-> r.reasons[i].text] = ExpectedReasonTexts
            /\ \A i \in 1..Len(flags) : \A j \in 1..Len(flags) :
                   i < j => ChannelRank(flags[i]) <= ChannelRank(flags[j])
            /\ r.value > 0 => r.reasons # << >>
            /\ r.value = 0 => r.reasons = << >>

\* Bad adherence, confirmed high pressure and high glucose, low oxygen and
\* an overdue exam: level high with the five reasons.
C14_Witness ==
    /\ Returned
    /\ summary.adherence.adherenceStatus = "bad"
    /\ summary.vitals.flags = <<"PRESSURE_HIGH", "GLUCOSE_HIGH", "OXYGEN_LOW">>
    /\ summary.exams.overdueExams = 1
    /\ summary.riskScore.level = "high"
    /\ Len(summary.riskScore.reasons) = 5

\* The message of routine follow-up.
StableMessage ==
    [msg |-> "Paciente apresenta boa adesao e sinais vitais dentro dos parametros",
     arg |-> << >>]

\* Some rule other than the default one has its condition met.
SomeRuleFired ==
    \/ summary.adherence.adherenceStatus \in {"bad", "medium"}
    \/ \E i \in 1..Len(summary.vitals.flags) :
          summary.vitals.flags[i] \in
              {"PRESSURE_HIGH", "PRESSURE_LOW", "GLUCOSE_HIGH", "GLUCOSE_LOW", "OXYGEN_LOW"}
    \/ summary.exams.overdueExams > 0
    \/ summary.exams.pendingExams > 3
    \/ summary.riskScore.level \in {"moderate", "high"}

\* C15: recommendations is never empty; it contains the routine follow-up
\* message exactly when no other rule fired, and then that message is its
\* only entry; good adherence with no flags, no overdue exams, at most 3
\* pending exams and level low yields exactly that message.
C15_DefaultRecommendation ==
    Returned =>
        LET recs == summary.recommendations
            hasDefault == \E i \in 1..Len(recs) : recs[i] = StableMessage
        IN  /\ Len(recs) >= 1
            /\ hasDefault <=> ~SomeRuleFired
            /\ hasDefault => recs = <<StableMessage>>
            /\ ( /\ summary.adherence.adherenceStatus = "good"
                 /\ summary.vitals.flags = << >>
                 /\ summary.exams.overdueExams = 0
                 /\ summary.exams.pendingExams <= 3
                 /\ summary.riskScore.level = "low" ) => recs = <<StableMessage>>

\* Three pending exams and nothing else: the routine message alone.
C15_Witness ==
    /\ Returned
    /\ summary.exams.pendingExams = 3
    /\ summary.adherence.totalReminders = 0
    /\ summary.recommendations = <<StableMessage>>

\* The rule a message belongs to, numbered in declaration order: 1 adherence,
\* 2 PRESSURE_HIGH, 3 PRESSURE_LOW, 4 GLUCOSE_HIGH, 5 GLUCOSE_LOW,
\* 6 OXYGEN_LOW, 7 overdue exams, 8 pending exams, 9 risk level; 0 for the
\* routine message.
RuleOf(rec) ==
    CASE rec.msg \in {"Refoccar estrategias de adesao",
                      "Configurar lembretes mais frequentes",
                      "Reforcar a importancia da adesao"} -> 1
      [] rec.msg \in {"URGENTE: Pressao arterial muito elevada",
                      "Avaliar ajuste da medicacao anti-hipertensiva"} -> 2
      [] rec.msg = "Investigar causas de hipotensao" -> 3
      [] rec.msg \in {"Glicemia acima da meta",
                      "Intensificar frequencia de monitorizacao glicemica"} -> 4
      [] rec.msg \in {"URGENTE: Episodios de hipoglicemia grave detectados",
                      "Atencao aos episodios de hipoglicemia"} -> 5
      [] rec.msg = "Saturacao de oxigenio baixa" -> 6
      [] rec.msg = "Reagendar exame(s) atrasado(s)" -> 7
      [] rec.msg = "Organizar agenda de exames pendentes" -> 8
      [] rec.msg \in {"RISCO ALTO: Agendar consulta presencial urgente",
                      "Considerar intensificar acompanhamento",
                      "Risco moderado: agendar consulta de acompanhamento"} -> 9
      [] OTHER -> 0

HasFlag(flag) == \E i \in 1..Len(summary.vitals.flags) : summary.vitals.flags[i] = flag

\* Whether rule n has its condition met.
RuleFired(n) ==
    CASE n = 1 -> summary.adherence.adherenceStatus \in {"bad", "medium"}
      [] n = 2 -> HasFlag("PRESSURE_HIGH")
      [] n = 3 -> HasFlag("PRESSURE_LOW")
      [] n = 4 -> HasFlag("GLUCOSE_HIGH")
      [] n = 5 -> HasFlag("GLUCOSE_LOW")
      [] n = 6 -> HasFlag("OXYGEN_LOW")
      [] n = 7 -> summary.exams.overdueExams > 0
      [] n = 8 -> summary.exams.pendingExams > 3
      [] n = 9 -> summary.riskScore.level \in {"moderate", "high"}

\* The rules that answer with two messages.
TwoMessages(n) ==
    \/ n = 1 /\ summary.adherence.adherenceStatus = "bad"
    \/ n = 4
    \/ n = 9 /\ summary.riskScore.level = "high"

RecsInRuleOrder ==
    LET recs == summary.recommendations
    IN  \A i \in 1..Len(recs) : \A j \in 1..Len(recs) :
            i < j => RuleOf(recs[i]) <= RuleOf(recs[j])

RecsOfRule(n) ==
    Cardinality({i \in 1..Len(summary.recommendations) :
                    RuleOf(summary.recommendations[i]) = n})

\* C16 as stated: the recommendations follow rule-declaration order
\* (adherence, per-flag rules, exam rules, risk level), every rule appends
\* zero or one message, so the messages other than the routine one are no
\* more than the rules that fired, and the risk-level message, when present,
\* is the last entry.
C16_OneMessagePerRule ==
    Returned =>
        LET recs == summary.recommendations
        IN  /\ RecsInRuleOrder
            /\ \A n \in 1..9 : RecsOfRule(n) <= 1
            /\ Cardinality({i \in 1..Len(recs) : RuleOf(recs[i]) # 0})
                 <= Cardinality({n \in 1..9 : RuleFired(n)})
            /\ RuleFired(9) =>
                   recs[Len(recs)].msg \in
                       {"RISCO ALTO: Agendar consulta presencial urgente",
                        "Risco moderado: agendar consulta de acompanhamento"}

\* C16 as amended: the recommendations follow rule-declaration order; a rule
\* that did not fire appends nothing, the bad-adherence rule, the
\* GLUCOSE_HIGH rule and the high-risk rule append two messages each and
\* every other rule that fired appends one; the risk-level messages, when
\* present, are the last entries: the moderate message last, or the RISCO
\* ALTO message followed by the closer-follow-up message.
C16_RuleOrderUpToTwoMessages ==
    Returned =>
        LET recs == summary.recommendations
            n == Len(recs)
        IN  /\ RecsInRuleOrder
            /\ \A k \in 1..9 :
                   RecsOfRule(k) = (IF ~RuleFired(k) THEN 0
                                    ELSE IF TwoMessages(k) THEN 2 ELSE 1)
            /\ summary.riskScore.level = "moderate" =>
                   recs[n].msg = "Risco moderado: agendar consulta de acompanhamento"
            /\ summary.riskScore.level = "high" =>
                   /\ n >= 2
                   /\ recs[n - 1].msg = "RISCO ALTO: Agendar consulta presencial urgente"
                   /\ recs[n].msg = "Considerar intensificar acompanhamento"

\* Bad adherence, high glucose, low oxygen and a high level: four rules,
\* seven messages.
C16_Witness ==
    /\ Returned
    /\ summary.adherence.adherenceStatus = "bad"
    /\ summary.vitals.flags = <<"GLUCOSE_HIGH", "OXYGEN_LOW">>
    /\ summary.exams.overdueExams = 0
    /\ summary.riskScore.level = "high"
    /\ Len(summary.recommendations) = 7

\* The rule answering a pressure, glucose or oxygen flag.
FlagRule ==
    [f \in {"PRESSURE_HIGH", "PRESSURE_LOW", "GLUCOSE_HIGH", "GLUCOSE_LOW", "OXYGEN_LOW"} |->
        CASE f = "PRESSURE_HIGH" -> 2
          [] f = "PRESSURE_LOW" -> 3
          [] f = "GLUCOSE_HIGH" -> 4
          [] f = "GLUCOSE_LOW" -> 5
          [] f = "OXYGEN_LOW" -> 6]

\* The messages that open with URGENTE.
UrgentPrefixed(rec) ==
    rec.msg \in {"URGENTE: Pressao arterial muito elevada",
                 "URGENTE: Episodios de hipoglicemia grave detectados"}

UrgentFor(flag) ==
    \E i \in 1..Len(summary.recommendations) :
        /\ RuleOf(summary.recommendations[i]) = FlagRule[flag]
        /\ UrgentPrefixed(summary.recommendations[i])

\* C17: a pressure, glucose or oxygen flag of severity high has an
\* URGENTE-prefixed recommendation, and a flag of lower severity has none.
C17_UrgentForHighSeverity ==
    Returned =>
        \A i \in 1..Len(summary.vitals.flagDetails) :
            LET d == summary.vitals.flagDetails[i]
            IN  d.flag \in DOMAIN FlagRule =>
                    (UrgentFor(d.flag) <=> d.severity = "high")

Repeated == pc = "repeated"

\* C18: two calls with the same patientId and the same reminder, vital and
\* exam lists, entered at the same value of the clock, return summaries equal
\* in every field, generatedAt included.
C18_Deterministic ==
    ( /\ Repeated
      /\ reminders = previous.reminders
      /\ vitals = previous.vitals
      /\ exams = previous.exams
      /\ reads.entry = previous.reads.entry ) =>
        summary = previous.summary

\* C19: a call with the same records in another order, every analyzer
\* reading the clock as in the first call, returns the same latest
\* measurements, flags, flag severities, risk score and recommendations.
C19_OrderIndependent ==
    ( /\ Repeated
      /\ reads.adherence = previous.reads.adherence
      /\ reads.vitals = previous.reads.vitals
      /\ reads.exams = previous.reads.exams ) =>
        /\ summary.vitals.lastMeasurements = previous.summary.vitals.lastMeasurements
        /\ summary.vitals.flags = previous.summary.vitals.flags
        /\ summary.vitals.flagDetails = previous.summary.vitals.flagDetails
        /\ summary.riskScore = previous.summary.riskScore
        /\ summary.recommendations = previous.summary.recommendations

\* C20: an engine never holds a configuration with goodThreshold <
\* mediumThreshold or with lowMax > moderateMax, construction with one having
\* failed, and no summary is computed with such a configuration.
C20_InvalidConfigRejected ==
    Returned =>
        /\ config.adherence.goodThreshold >= config.adherence.mediumThreshold
        /\ config.riskLevels.lowMax <= config.riskLevels.moderateMax

---------------------------------------------------------------------------
\* C21: invocations of the shared engine for different patients do not
\* interfere.  Whatever the order in which the callers invoke the engine and
\* resume, each caller receives exactly the summary of its own patient id
\* and records at the instants its own invocation read the clock, and the
\* configuration is the one the engine was constructed with.
OwnSummary(c) ==
    generatePatientSummary(PatientIds[c], calls[c].reminders, calls[c].vitals,
                           calls[c].exams, calls[c].reads.adherence,
                           calls[c].reads.vitals, calls[c].reads.exams,
                           calls[c].reads.generatedAt)

C21_NoInterference ==
    /\ config = Constructor(NoOverride)
    /\ \A c \in DOMAIN calls :
         calls[c].stage = "resumed" => calls[c].result = OwnSummary(c)

\* Caller 2 invoked the engine at tick 0 and is still waiting; caller 1
\* invoked it afterwards, at tick 1, for other records, and has resumed.
C21_Witness ==
    /\ calls # NoCalls
    /\ calls[1].stage = "resumed"
    /\ calls[2].stage = "settled"
    /\ calls[2].reads.generatedAt < calls[1].reads.adherence
    /\ calls[1].exams # calls[2].exams
    /\ calls[1].result.riskScore # calls[2].promise.riskScore

---------------------------------------------------------------------------
\* C22: the invocation analyses adherence, vitals and exams, then scores the
\* risk, then writes the recommendations, and the generatedAt it returns is
\* the invocation time: the one instant against which the adherence window,
\* the vitals window and the exams were evaluated, also when the clock
\* advances while the invocation runs.
C22_GeneratedAtIsInvocationTime ==
    Returned =>
        /\ reads.adherence <= reads.vitals
        /\ reads.vitals <= reads.exams
        /\ summary.generatedAt = toISOString(reads.entry)
        /\ summary.generatedAt = toISOString(reads.adherence)
        /\ summary.generatedAt = toISOString(reads.vitals)
        /\ summary.generatedAt = toISOString(reads.exams)

---------------------------------------------------------------------------
\* C23: of 100 reminders, one a day on the 100 days ending now, of which the
\* N most recent were taken and the others missed, the adherence is good
\* with a rate of at least 90 for N = 95, medium with a rate of at least 75
\* and below 90 for N = 80, and bad with a rate below 75 for N = 60.
C23_DailyHistories ==
    Returned =>
        /\ reminders = createRemindersWithAdherence(95) =>
              /\ summary.adherence.adherenceStatus = "good"
              /\ summary.adherence.adherenceRate >= H(90)
        /\ reminders = createRemindersWithAdherence(80) =>
              /\ summary.adherence.adherenceStatus = "medium"
              /\ summary.adherence.adherenceRate >= H(75)
              /\ summary.adherence.adherenceRate < H(90)
        /\ reminders = createRemindersWithAdherence(60) =>
              /\ summary.adherence.adherenceStatus = "bad"
              /\ summary.adherence.adherenceRate < H(75)

---------------------------------------------------------------------------
\* C24: medium adherence, a confirmed PRESSURE_HIGH from the readings 145/92
\* and 142/90 (below high severity) as the only flag, and a single scheduled
\* exam that is not overdue give the risk level moderate with a value of at
\* least 30 and below 60.
ModerateRiskCase ==
    /\ Returned
    /\ vitals = <<Pressure(145, 92), Pressure(142, 90)>>
    /\ Len(exams) = 1
    /\ exams[1].status = "scheduled"
    /\ summary.adherence.adherenceStatus = "medium"
    /\ summary.vitals.flags = <<"PRESSURE_HIGH">>
    /\ summary.vitals.flagDetails[1].severity # "high"
    /\ summary.exams.overdueExams = 0

C24_ModerateRisk ==
    ModerateRiskCase =>
        /\ summary.riskScore.level = "moderate"
        /\ summary.riskScore.value >= H(30)
        /\ summary.riskScore.value < H(60)

---------------------------------------------------------------------------
\* C25: the summary endpoint answers 200 only to an authorised requester:
\* an ADMIN, the PATIENT whose id is patientId, a CAREGIVER responsible for
\* that patient, or a PROFESSIONAL attending that patient.  Any other
\* authenticated requester gets 403, an unauthenticated one 401, a request
\* without patientId 400, and in none of these three cases are records
\* fetched or a summary generated.
CaregiverPatients == {<<"caregiver-1", "patient-123">>, <<"caregiver-2", "patient-456">>}
ProfessionalPatients == {<<"professional-1", "patient-123">>}

Authenticated ==
    /\ IsSome(http.user)
    /\ IsSome(Val(http.user).id)
    /\ IsSome(Val(http.user).role)

Authorised ==
    /\ Authenticated
    /\ LET id == Val(Val(http.user).id)
           role == Val(Val(http.user).role)
       IN \/ role = "ADMIN"
          \/ role = "PATIENT" /\ id = patientId
          \/ role = "CAREGIVER" /\ <<id, patientId>> \in CaregiverPatients
          \/ role = "PROFESSIONAL" /\ <<id, patientId>> \in ProfessionalPatients

NothingFetched ==
    /\ reminders = << >>
    /\ vitals = << >>
    /\ exams = << >>
    /\ summary = NoSummary

C25_AccessControl ==
    pc = "responded" =>
        /\ http.status = Some(200) => patientId # "" /\ Authorised
        /\ patientId = "" => http.status = Some(400)
        /\ patientId # "" /\ ~Authenticated => http.status = Some(401)
        /\ patientId # "" /\ Authenticated /\ ~Authorised => http.status = Some(403)
        /\ http.status # Some(200) => NothingFetched

---------------------------------------------------------------------------
\* C26: the heart-rate, temperature and oxygen flags are decided by the most
\* recent reading of the channel within the 7-day window alone: the flag is
\* present exactly when that reading crosses the limit (heart rate >= 100 or
\* <= 50, temperature >= 38 or <= 35, oxygen <= 92 with severity medium at
\* <= 90 and high at <= 88).  An older abnormal reading followed by a newer
\* normal one raises no flag, and one abnormal latest reading suffices.
InWindowOf(type) ==
    {i \in DOMAIN vitals : vitals[i].type = type /\ InVitalsWindow(vitals[i])}

\* The values of the channel's in-window readings of the latest date.
LatestValues(type) ==
    {vitals[i].numericValue :
        i \in {k \in InWindowOf(type) :
                 \A j \in InWindowOf(type) : vitals[j].recordedAt <= vitals[k].recordedAt}}

FlagExactlyWhen(flag, crossed) == HasFlag(flag) <=> crossed

SeverityOf(flag) ==
    {summary.vitals.flagDetails[i].severity :
        i \in {k \in DOMAIN summary.vitals.flagDetails :
                 summary.vitals.flagDetails[k].flag = flag}}

C26_LatestReadingDecides ==
    Returned =>
        /\ \A x \in LatestValues("heart_rate") :
             Cardinality(LatestValues("heart_rate")) = 1 =>
                /\ FlagExactlyWhen("HEART_RATE_HIGH", OptGe(x, T(100)))
                /\ FlagExactlyWhen("HEART_RATE_LOW", OptLe(x, T(50)))
        /\ \A x \in LatestValues("temperature") :
             Cardinality(LatestValues("temperature")) = 1 =>
                /\ FlagExactlyWhen("TEMPERATURE_HIGH", OptGe(x, T(38)))
                /\ FlagExactlyWhen("TEMPERATURE_LOW", OptLe(x, T(35)))
        /\ \A x \in LatestValues("oxygen_saturation") :
             Cardinality(LatestValues("oxygen_saturation")) = 1 =>
                /\ FlagExactlyWhen("OXYGEN_LOW", OptLe(x, T(92)))
                /\ OptLe(x, T(92)) =>
                      SeverityOf("OXYGEN_LOW") =
                         {IF OptLe(x, T(88)) THEN "high"
                          ELSE IF OptLe(x, T(90)) THEN "medium" ELSE "low"}
        /\ LatestValues("heart_rate") = {} =>
              ~HasFlag("HEART_RATE_HIGH") /\ ~HasFlag("HEART_RATE_LOW")
        /\ LatestValues("temperature") = {} =>
              ~HasFlag("TEMPERATURE_HIGH") /\ ~HasFlag("TEMPERATURE_LOW")
        /\ LatestValues("oxygen_saturation") = {} => ~HasFlag("OXYGEN_LOW")

\* An oxygen reading of 88 % a week ago, still in the window, followed by a
\* reading of 93 % yesterday: no flag.
C26_Witness ==
    /\ Returned
    /\ vitals = <<Vital("oxygen_saturation", -Days(VitalsDays), None, None, Some(T(88))),
                  Vital("oxygen_saturation", -Days(1), None, None, Some(T(93)))>>
    /\ InWindowOf("oxygen_saturation") = {1, 2}
    /\ summary.vitals.flags = << >>

\* A single reading of 100 bpm raises HEART_RATE_HIGH.
C26_WitnessSingle ==
    /\ Returned
    /\ vitals = <<Vital("heart_rate", -Days(1), None, None, Some(T(100)))>>
    /\ summary.vitals.flags = <<"HEART_RATE_HIGH">>

---------------------------------------------------------------------------
\* C27: the value reported in every entry of vitals.flagDetails itself meets
\* the entry's trigger against the reported threshold: value >= threshold for
\* a *_HIGH flag and value <= threshold for a *_LOW flag, for the pressure
\* and glucose flags as for the channels judged by one reading.
HighFlags == {"PRESSURE_HIGH", "GLUCOSE_HIGH", "HEART_RATE_HIGH", "TEMPERATURE_HIGH"}
LowFlags == {"PRESSURE_LOW", "GLUCOSE_LOW", "HEART_RATE_LOW", "TEMPERATURE_LOW", "OXYGEN_LOW"}

C27_ValueMeetsThreshold ==
    Returned =>
        \A i \in DOMAIN summary.vitals.flagDetails :
            LET d == summary.vitals.flagDetails[i]
            IN /\ d.flag \in HighFlags => d.value >= d.threshold
               /\ d.flag \in LowFlags => d.value <= d.threshold

---------------------------------------------------------------------------
\* C28: under the default configuration no summary carries both direction
\* flags of one channel: PRESSURE_HIGH with PRESSURE_LOW, GLUCOSE_HIGH with
\* GLUCOSE_LOW, HEART_RATE_HIGH with HEART_RATE_LOW, TEMPERATURE_HIGH with
\* TEMPERATURE_LOW.
C28_NoOppositeFlags ==
    Returned =>
        /\ ~(HasFlag("PRESSURE_HIGH") /\ HasFlag("PRESSURE_LOW"))
        /\ ~(HasFlag("GLUCOSE_HIGH") /\ HasFlag("GLUCOSE_LOW"))
        /\ ~(HasFlag("HEART_RATE_HIGH") /\ HasFlag("HEART_RATE_LOW"))
        /\ ~(HasFlag("TEMPERATURE_HIGH") /\ HasFlag("TEMPERATURE_LOW"))

\* C28, amended: no summary carries both HEART_RATE flags or both
\* TEMPERATURE flags; both PRESSURE flags, or both GLUCOSE flags, are carried
\* only when in-window readings meet the high rule and the low rule of the
\* channel (pressure: a reading with systolic >= 140 or diastolic >= 90 and a
\* reading with systolic <= 90 or diastolic <= 60; glucose: a reading >= 180
\* and a reading <= 70).
HasReading(type, Low) ==
    \E i \in InWindowOf(type) :
        IF type = "blood_pressure"
        THEN IF Low
             THEN OptLe(vitals[i].systolic, T(90)) \/ OptLe(vitals[i].diastolic, T(60))
             ELSE OptGe(vitals[i].systolic, T(140)) \/ OptGe(vitals[i].diastolic, T(90))
        ELSE IF Low
             THEN OptLe(vitals[i].numericValue, T(70))
             ELSE OptGe(vitals[i].numericValue, T(180))

C28_OppositeFlagsOnlyFromReadings ==
    Returned =>
        /\ ~(HasFlag("HEART_RATE_HIGH") /\ HasFlag("HEART_RATE_LOW"))
        /\ ~(HasFlag("TEMPERATURE_HIGH") /\ HasFlag("TEMPERATURE_LOW"))
        /\ HasFlag("PRESSURE_HIGH") /\ HasFlag("PRESSURE_LOW") =>
              HasReading("blood_pressure", FALSE) /\ HasReading("blood_pressure", TRUE)
        /\ HasFlag("GLUCOSE_HIGH") /\ HasFlag("GLUCOSE_LOW") =>
              HasReading("glucose", FALSE) /\ HasReading("glucose", TRUE)

\* The window holds a heart rate of 100 bpm and, as the latest reading, one
\* of 50 bpm: HEART_RATE_LOW alone.
C28_Witness ==
    /\ Returned
    /\ \E i \in InWindowOf("heart_rate") : OptGe(vitals[i].numericValue, T(100))
    /\ \E i \in InWindowOf("heart_rate") : OptLe(vitals[i].numericValue, T(50))
    /\ summary.vitals.flags = <<"HEART_RATE_LOW">>

---------------------------------------------------------------------------
\* C29: the default recommendation is returned only for summaries in which
\* vitals.flags is empty, the adherence status is good and the risk value is
\* 0.
C29_DefaultOnlyWhenNothingFound ==
    Returned /\ Includes(summary.recommendations, DefaultRecommendation) =>
        /\ summary.vitals.flags = << >>
        /\ summary.adherence.adherenceStatus = "good"
        /\ summary.riskScore.value = 0

---------------------------------------------------------------------------
=============================================================================
